---------------------------- MODULE Spec2Model ----------------------------
(***************************************************************************)
(* Model of the tree extractor of Curl2json                                *)
(* (src/internal/extractor/tree.go).                                       *)
(*                                                                         *)
(* A Go string is modelled as the sequence of its Unicode code points      *)
(* (runes); byte lengths are computed from the UTF-8 width of each rune.   *)
(* A decoded JSON value (interface{}) is a record tagged by its Go dynamic *)
(* type: [t |-> "null"], [t |-> "bool", b], [t |-> "num", n],              *)
(* [t |-> "str", s], [t |-> "arr", a], [t |-> "obj", f] where f is a       *)
(* function from keys (rune sequences) to values.                          *)
(***************************************************************************)
EXTENDS Integers, Sequences, FiniteSets, TLC

VARIABLES
  titleKeys,     \* TreeExtractor.titleKeys
  childrenKeys,  \* TreeExtractor.childrenKeys
  verbose,       \* TreeExtractor.verbose
  maxDepth,      \* TreeExtractor.maxDepth
  data,          \* the bytes handed to Extract
  order,         \* the iteration order the Go runtime gives map ranges in this call
  pc,            \* "ready" before the call, "done" after it returned
  output,        \* the bytes Extract returned (<<>> is the nil slice)
  err,           \* the error Extract returned ("nil" is no error)
  ran,           \* the extraction strategies the call entered
  frames,        \* the deepest nesting of frames of a recursive routine in the call
  text,          \* the argument of a classifier call
  verdict,       \* <<>> before isBusinessText was called, <<result>> after
  uiVerdict,     \* <<>> before isUIBusinessText was called, <<result>> after
  candidates,    \* the nodes handed to selectBestBusinessRootNode
  chosen,        \* what the calls of selectBestBusinessRootNode returned, in order
  previous,      \* <<>>, or what the call of Extract before this one returned
  command,       \* the cURL command handed to Process (<<>> in parameter mode)
  requestInfo,   \* <<>>, or the RequestInfo of the request (from Parse or from the flags)
  parseErr,      \* the error Parse returned ("nil" is no error)
  step,          \* how far Process has come: "input", "parsed", "executed" or a failure
  request,       \* <<>>, or the HTTP request Execute built and sent
  cliFlags,      \* <<>>, or the input flags and arguments the command line was given
  env,           \* <<>>, or what stdin and the file system hold for the command line
  written,       \* <<>>, or the bytes written to the output file
  lookupObj,     \* <<>>, or the decoded object handed to findTitle and findChildren
  foundTitle,    \* <<>> before findTitle was called, <<result>> after
  foundChildren  \* <<>> before findChildren was called, <<result or panic>> after

vars == <<titleKeys, childrenKeys, verbose, maxDepth, data, order, pc, output, err,
          ran, frames, text, verdict, uiVerdict, candidates, chosen, previous,
          command, requestInfo, parseErr, step, request, cliFlags, env, written,
          lookupObj, foundTitle, foundChildren>>

extractorVars == <<titleKeys, childrenKeys, verbose, maxDepth>>
callVars == <<data, order, pc, output, err, ran, frames>>
classifierVars == <<text, verdict, uiVerdict>>
scorerVars == <<candidates, chosen>>
curlVars == <<command, requestInfo, parseErr, step, request>>
runVars == <<cliFlags, env, written>>
lookupVars == <<lookupObj, foundTitle, foundChildren>>
otherVars == <<scorerVars, previous, curlVars, runVars, lookupVars>>

(***************************************************************************)
(* Keyword tables and string literals of tree.go                           *)
(***************************************************************************)
\* isBusinessText: technicalKeywords (tree.go:136-158)
technicalKeywords ==
  <<
    <<67, 114, 101, 97, 116, 101, 100, 65, 116>>,  \* "CreatedAt"
    <<85, 112, 100, 97, 116, 101, 100, 65, 116>>,  \* "UpdatedAt"
    <<84, 101, 115, 116, 67, 97, 115, 101, 73, 100>>,  \* "TestCaseId"
    <<80, 114, 111, 100, 117, 99, 116, 73, 100>>,  \* "ProductId"
    <<101, 114, 114, 67, 111, 100, 101>>,  \* "errCode"
    <<83, 116, 97, 116, 117, 115>>,  \* "Status"
    <<83, 116, 97, 116, 117, 115, 67, 111, 100, 101>>,  \* "StatusCode"
    <<67, 97, 115, 101, 78, 117, 109>>,  \* "CaseNum"
    <<66, 97, 115, 101, 84, 121, 112, 101>>,  \* "BaseType"
    <<83, 111, 117, 114, 99, 101, 84, 121, 112, 101>>,  \* "SourceType"
    <<73, 115, 84, 101, 109, 112, 108, 97, 116, 101>>,  \* "IsTemplate"
    <<73, 115, 83, 116, 114, 105, 99, 116>>,  \* "IsStrict"
    <<84, 104, 101, 109, 101>>,  \* "Theme"
    <<82, 101, 109, 97, 114, 107>>,  \* "Remark"
    <<84, 101, 109, 112, 108, 97, 116, 101>>,  \* "Template"
    <<69, 110, 116, 105, 116, 121, 73, 100>>,  \* "EntityId"
    <<69, 110, 116, 105, 116, 121, 86, 101, 114, 115, 105, 111, 110>>,  \* "EntityVersion"
    <<67, 117, 115, 116, 111, 109, 70, 105, 101, 108, 100, 115>>,  \* "CustomFields"
    <<68, 105, 114, 101, 99, 116, 111, 114, 121>>,  \* "Directory"
    <<67, 114, 101, 97, 116, 101, 100, 66, 121>>,  \* "CreatedBy"
    <<85, 112, 100, 97, 116, 101, 100, 66, 121>>,  \* "UpdatedBy"
    <<80, 97, 114, 101, 110, 116, 68, 105, 114, 76, 105, 110, 107>>,  \* "ParentDirLink"
    <<66, 97, 115, 101, 82, 101, 115, 112>>,  \* "BaseResp"
    <<67, 114, 101, 97, 116, 101, 100, 65, 116, 84, 83>>,  \* "CreatedAtTS"
    <<85, 112, 100, 97, 116, 101, 100, 65, 116, 84, 83>>,  \* "UpdatedAtTS"
    <<84, 101, 115, 116, 67, 97, 115, 101, 83, 116, 97, 116, 117, 115>>,  \* "TestCaseStatus"
    <<67, 111, 109, 109, 101, 110, 116, 73, 110, 102, 111>>,  \* "CommentInfo"
    <<66, 101, 108, 111, 110, 103, 73, 68, 76, 105, 115, 116>>,  \* "BelongIDList"
    <<77, 97, 114, 107, 105, 110, 103, 67, 104, 101, 99, 107>>,  \* "MarkingCheck"
    <<83, 116, 114, 105, 99, 116, 77, 105, 110, 100, 86, 101, 114, 115, 105, 111, 110>>,  \* "StrictMindVersion"
    <<66, 105, 116, 115, 68, 101, 112, 101, 110, 100, 101, 110, 99, 105, 101, 115>>,  \* "BitsDependencies"
    <<84, 101, 109, 112, 80, 97, 114, 101, 110, 116, 68, 105, 114, 76, 105, 110, 107>>,  \* "TempParentDirLink"
    <<70, 108, 111, 119, 73, 116, 101, 109, 76, 105, 115, 116>>,  \* "FlowItemList"
    <<83, 99, 114, 105, 112, 116, 67, 97, 115, 101, 76, 105, 115, 116>>,  \* "ScriptCaseList"
    <<105, 109, 97, 103, 101, 115>>,  \* "images"
    <<105, 109, 97, 103, 101, 83, 105, 122, 101>>,  \* "imageSize"
    <<104, 121, 112, 101, 114, 108, 105, 110, 107>>,  \* "hyperlink"
    <<104, 121, 112, 101, 114, 108, 105, 110, 107, 84, 105, 116, 108, 101>>,  \* "hyperlinkTitle"
    <<112, 114, 111, 103, 114, 101, 115, 115>>,  \* "progress"
    <<112, 114, 105, 111, 114, 105, 116, 121>>,  \* "priority"
    <<115, 99, 114, 105, 112, 116, 95, 116, 97, 115, 107>>,  \* "script_task"
    <<114, 101, 115, 111, 117, 114, 99, 101>>,  \* "resource"
    <<110, 111, 100, 101, 84, 121, 112, 101>>,  \* "nodeType"
    <<112, 97, 114, 101, 110, 116, 73, 68>>,  \* "parentID"
    <<97, 116, 116, 97, 99, 104, 109, 101, 110, 116>>,  \* "attachment"
    <<103, 101, 110, 73, 100>>,  \* "genId"
    <<87, 111, 114, 107, 73, 116, 101, 109, 84, 121, 112, 101, 75, 101, 121>>,  \* "WorkItemTypeKey"
    <<82, 101, 113, 117, 105, 114, 101, 109, 101, 110, 116, 73, 100>>,  \* "RequirementId"
    <<82, 101, 113, 117, 105, 114, 101, 109, 101, 110, 116, 76, 105, 110, 107>>,  \* "RequirementLink"
    <<82, 101, 113, 117, 105, 114, 101, 109, 101, 110, 116, 83, 111, 117, 114, 99, 101>>,  \* "RequirementSource"
    <<82, 101, 113, 117, 105, 114, 101, 109, 101, 110, 116, 84, 105, 116, 108, 101>>,  \* "RequirementTitle"
    <<112, 114, 111, 106, 101, 99, 116>>,  \* "project"
    <<112, 114, 111, 106, 101, 99, 116, 78, 97, 109, 101>>,  \* "projectName"
    <<85, 115, 101, 114, 75, 101, 121>>,  \* "UserKey"
    <<68, 105, 115, 112, 108, 97, 121, 78, 97, 109, 101>>,  \* "DisplayName"
    <<69, 110, 78, 97, 109, 101>>,  \* "EnName"
    <<68, 105, 114, 73, 100>>,  \* "DirId"
    <<68, 105, 114, 78, 97, 109, 101>>,  \* "DirName"
    <<68, 105, 114, 78, 97, 109, 101, 69, 110>>,  \* "DirNameEn"
    <<116, 111, 116, 97, 108>>,  \* "total"
    <<102, 105, 110, 105, 115, 104>>,  \* "finish"
    <<115, 101, 115, 115, 105, 111, 110, 95, 105, 100>>,  \* "session_id"
    <<101, 120, 112, 105, 114, 121, 95, 116, 105, 109, 101>>,  \* "expiry_time"
    <<116, 111, 107, 101, 110, 95, 116, 121, 112, 101>>,  \* "token_type"
    <<112, 101, 114, 109, 105, 115, 115, 105, 111, 110, 115>>,  \* "permissions"
    <<117, 115, 101, 114>>,  \* "user"
    <<100, 111, 110, 103, 104, 101>>,  \* "donghe"
    <<107, 105, 108, 111, 118>>,  \* "kilov"
    <<115, 101, 115, 115, 95>>,  \* "sess_"
    <<74, 87, 84>>,  \* "JWT"
    <<100, 101, 98, 117, 103, 95, 105, 110, 102, 111>>,  \* "debug_info"
    <<100, 101, 116, 97, 105, 108, 115>>,  \* "details"
    <<115, 117, 103, 103, 101, 115, 116, 105, 111, 110, 115>>,  \* "suggestions"
    <<80, 108, 101, 97, 115, 101, 32, 114, 101, 102, 114, 101, 115, 104>>,  \* "Please refresh"
    <<67, 104, 101, 99, 107, 32, 121, 111, 117, 114>>,  \* "Check your"
    <<67, 111, 110, 116, 97, 99, 116, 32, 115, 117, 112, 112, 111, 114, 116>>,  \* "Contact support"
    <<65, 117, 116, 104>>,  \* "Auth"
    <<69, 82, 82, 79, 82>>,  \* "ERROR"
    <<118, 97, 108, 105, 100, 97, 116, 101>>,  \* "validate"
    <<102, 97, 105, 108, 101, 100>>,  \* "failed"
    <<101, 120, 112, 105, 114, 101, 100>>,  \* "expired"
    <<84, 111, 107, 101, 110>>,  \* "Token"
    <<29579, 36890>>,  \* "王通"
    <<24352, 19977>>,  \* "张三"
    <<26446, 22235>>,  \* "李四"
    <<119, 97, 110, 103, 116, 111, 110, 103>>,  \* "wangtong"
    <<67, 114, 101, 97, 116, 101, 100, 32, 66, 121>>,  \* "Created By"
    <<117, 112, 100, 97, 116, 101, 100, 32, 98, 121>>,  \* "updated by"
    <<109, 101, 115, 115, 97, 103, 101>>,  \* "message"
    <<65, 117, 116, 104, 32, 69, 82, 82, 79, 82>>,  \* "Auth ERROR"
    <<74, 119, 116, 32, 118, 97, 108, 105, 100, 97, 116, 101, 32, 102, 97, 105, 108, 101, 100>>,  \* "Jwt validate failed"
    <<65, 80, 73, 32, 82, 101, 115, 112, 111, 110, 115, 101>>,  \* "API Response"
    <<85, 110, 97, 117, 116, 104, 111, 114, 105, 122, 101, 100>>,  \* "Unauthorized"
    <<101, 114, 114, 67, 111, 100, 101>>,  \* "errCode"
    <<99, 97, 115, 101, 65, 112, 105>>,  \* "caseApi"
    <<103, 101, 116, 67, 97, 115, 101, 68, 101, 116, 97, 105, 108>>  \* "getCaseDetail"
  >>

\* isBusinessText: businessKeywords of the personal-name filter (tree.go:177-184)
businessKeywords ==
  <<
    <<27979, 35797>>,  \* "测试"
    <<20248, 21270>>,  \* "优化"
    <<24615, 33021>>,  \* "性能"
    <<22330, 26223>>,  \* "场景"
    <<39564, 35777>>,  \* "验证"
    <<22238, 24402>>,  \* "回归"
    <<32452>>,  \* "组"
    <<23454, 39564>>,  \* "实验"
    <<23545, 29031>>,  \* "对照"
    <<36923, 36753>>,  \* "逻辑"
    <<26041, 26696>>,  \* "方案"
    <<21151, 33021>>,  \* "功能"
    <<39029, 38754>>,  \* "页面"
    <<27169, 22359>>,  \* "模块"
    <<27969, 31243>>,  \* "流程"
    <<38376, 24215>>,  \* "门店"
    <<25628, 32034>>,  \* "搜索"
    <<36755, 20837>>,  \* "输入"
    <<32467, 26524>>,  \* "结果"
    <<21253, 21547>>,  \* "包含"
    <<23458, 25143>>,  \* "客户"
    <<35814, 24773>>,  \* "详情"
    <<21015, 34920>>,  \* "列表"
    <<25968, 25454>>,  \* "数据"
    <<25195, 30721>>,  \* "扫码"
    <<26680, 38144>>,  \* "核销"
    <<36164, 20135>>,  \* "资产"
    <<20013, 24515>>,  \* "中心"
    <<21830, 23478>>,  \* "商家"
    <<20135, 21697>>,  \* "产品"
    <<23454, 26102>>,  \* "实时"
    <<35746, 21333>>,  \* "订单"
    <<25351, 26631>>,  \* "指标"
    <<23637, 31034>>,  \* "展示"
    <<25490, 24207>>,  \* "排序"
    <<31579, 36873>>,  \* "筛选"
    <<20174, 39640>>,  \* "从高"
    <<20174, 20302>>,  \* "从低"
    <<30001, 36828>>,  \* "由远"
    <<30001, 36817>>,  \* "由近"
    <<21040, 22823>>,  \* "到大"
    <<21040, 23567>>,  \* "到小"
    <<40664, 35748>>,  \* "默认"
    <<19981, 21487>>,  \* "不可"
    <<25805, 20316>>,  \* "操作"
    <<39640, 21040, 20302>>,  \* "高到低"
    <<20302, 21040, 39640>>,  \* "低到高"
    <<36828, 21040, 36817>>,  \* "远到近"
    <<36817, 21040, 36828>>,  \* "近到远"
    <<67, 82, 77>>,  \* "CRM"
    <<65, 103, 101, 110, 116>>,  \* "Agent"
    <<26234, 33021>>,  \* "智能"
    <<23545, 35805>>,  \* "对话"
    <<22810, 36718>>,  \* "多轮"
    <<25658, 24102>>,  \* "携带"
    <<19978, 19979, 25991>>,  \* "上下文"
    <<20999, 25442>>,  \* "切换"
    <<20027, 39064>>,  \* "主题"
    <<38382, 39064>>,  \* "问题"
    <<20307, 39564>>,  \* "体验"
    <<20248, 21270>>,  \* "优化"
    <<26597, 35810>>,  \* "查询"
    <<25968, 20540>>,  \* "数值"
    <<31354>>,  \* "空"
    <<25298, 31572>>,  \* "拒答"
    <<22330, 26223>>,  \* "场景"
    <<21382, 21490>>,  \* "历史"
    <<23384, 22312>>,  \* "存在"
    <<32500, 24230>>,  \* "维度"
    <<27491, 30830>>,  \* "正确"
    <<23637, 31034, 20026>>  \* "展示为"
  >>

\* isBusinessText: businessKeywords of the numbered-step filter (tree.go:205-206)
numberedBusinessKeywords ==
  <<
    <<29992, 25143>>,  \* "用户"
    <<26597, 35810>>,  \* "查询"
    <<25351, 26631>>,  \* "指标"
    <<25968, 25454>>,  \* "数据"
    <<32467, 26524>>,  \* "结果"
    <<23637, 31034>>,  \* "展示"
    <<65, 103, 101, 110, 116>>,  \* "Agent"
    <<22810, 36718>>,  \* "多轮"
    <<23545, 35805>>,  \* "对话"
    <<25658, 24102>>,  \* "携带"
    <<19978, 19979, 25991>>,  \* "上下文"
    <<31579, 36873>>,  \* "筛选"
    <<26465, 20214>>,  \* "条件"
    <<20999, 25442>>,  \* "切换"
    <<20027, 39064>>,  \* "主题"
    <<24320, 22987>>,  \* "开始"
    <<26032>>  \* "新"
  >>

\* isBusinessText: shortTechnicalWords (tree.go:228-228)
shortTechnicalWords ==
  <<
    <<97, 112, 105>>,  \* "api"
    <<117, 114, 108>>,  \* "url"
    <<104, 116, 116, 112>>,  \* "http"
    <<103, 101, 116>>,  \* "get"
    <<112, 111, 115, 116>>,  \* "post"
    <<112, 117, 116>>,  \* "put"
    <<100, 101, 108, 101, 116, 101>>  \* "delete"
  >>

\* isEnglishBusinessText: meaningfulWords (tree.go:267-274)
meaningfulWords ==
  <<
    <<116, 101, 115, 116>>,  \* "test"
    <<99, 104, 101, 99, 107>>,  \* "check"
    <<118, 101, 114, 105, 102, 121>>,  \* "verify"
    <<118, 97, 108, 105, 100, 97, 116, 101>>,  \* "validate"
    <<99, 111, 110, 102, 105, 114, 109>>,  \* "confirm"
    <<114, 101, 118, 105, 101, 119>>,  \* "review"
    <<111, 112, 116, 105, 109, 105, 122, 101>>,  \* "optimize"
    <<112, 101, 114, 102, 111, 114, 109, 97, 110, 99, 101>>,  \* "performance"
    <<115, 99, 101, 110, 97, 114, 105, 111>>,  \* "scenario"
    <<99, 97, 115, 101>>,  \* "case"
    <<115, 116, 101, 112>>,  \* "step"
    <<98, 101, 110, 99, 104, 109, 97, 114, 107>>,  \* "benchmark"
    <<98, 97, 115, 101, 108, 105, 110, 101>>,  \* "baseline"
    <<114, 101, 103, 114, 101, 115, 115, 105, 111, 110>>,  \* "regression"
    <<102, 117, 110, 99, 116, 105, 111, 110, 97, 108>>,  \* "functional"
    <<105, 110, 116, 101, 103, 114, 97, 116, 105, 111, 110>>,  \* "integration"
    <<109, 111, 110, 105, 116, 111, 114>>,  \* "monitor"
    <<97, 108, 101, 114, 116>>,  \* "alert"
    <<115, 101, 99, 117, 114, 105, 116, 121>>,  \* "security"
    <<108, 111, 103, 105, 110>>,  \* "login"
    <<108, 111, 103, 111, 117, 116>>,  \* "logout"
    <<97, 117, 116, 104>>,  \* "auth"
    <<117, 115, 101, 114>>,  \* "user"
    <<97, 100, 109, 105, 110>>,  \* "admin"
    <<115, 121, 115, 116, 101, 109>>,  \* "system"
    <<102, 101, 97, 116, 117, 114, 101>>,  \* "feature"
    <<109, 111, 100, 117, 108, 101>>,  \* "module"
    <<99, 111, 109, 112, 111, 110, 101, 110, 116>>,  \* "component"
    <<115, 101, 114, 118, 105, 99, 101>>,  \* "service"
    <<97, 112, 105>>,  \* "api"
    <<101, 110, 100, 112, 111, 105, 110, 116>>,  \* "endpoint"
    <<114, 101, 113, 117, 101, 115, 116>>,  \* "request"
    <<114, 101, 115, 112, 111, 110, 115, 101>>,  \* "response"
    <<99, 108, 105, 101, 110, 116>>,  \* "client"
    <<115, 101, 114, 118, 101, 114>>,  \* "server"
    <<100, 97, 116, 97, 98, 97, 115, 101>>,  \* "database"
    <<102, 114, 111, 110, 116, 101, 110, 100>>,  \* "frontend"
    <<98, 97, 99, 107, 101, 110, 100>>,  \* "backend"
    <<105, 110, 116, 101, 114, 102, 97, 99, 101>>,  \* "interface"
    <<99, 111, 110, 102, 105, 103>>,  \* "config"
    <<115, 101, 116, 116, 105, 110, 103>>  \* "setting"
  >>

\* isUIBusinessText: uiBusinessElements (tree.go:1691-1695)
uiBusinessElements ==
  <<
    <<65, 80, 80, 31471>>,  \* "APP端"
    <<80, 67, 31471>>,  \* "PC端"
    <<87, 101, 98, 31471>>,  \* "Web端"
    <<31227, 21160, 31471>>,  \* "移动端"
    <<26700, 38754, 31471>>,  \* "桌面端"
    <<25509, 21475, 39564, 35777>>,  \* "接口验证"
    <<31579, 36873>>,  \* "筛选"
    <<25490, 24207>>,  \* "排序"
    <<25628, 32034>>,  \* "搜索"
    <<21015, 34920>>,  \* "列表"
    <<35814, 24773>>,  \* "详情"
    <<23637, 31034>>,  \* "展示"
    <<39029, 38754>>,  \* "页面"
    <<30028, 38754>>,  \* "界面"
    <<33756, 21333>>,  \* "菜单"
    <<25353, 38062>>,  \* "按钮"
    <<36873, 39033>>,  \* "选项"
    <<25351, 26631>>,  \* "指标"
    <<25968, 25454>>,  \* "数据"
    <<32479, 35745>>,  \* "统计"
    <<25253, 34920>>,  \* "报表"
    <<22270, 34920>>,  \* "图表"
    <<21151, 33021>>,  \* "功能"
    <<27169, 22359>>,  \* "模块"
    <<32452, 20214>>,  \* "组件"
    <<27969, 31243>>  \* "流程"
  >>

\* isUIBusinessText: businessKeywords of the compound-marker rule (tree.go:1707-1707)
uiBusinessKeywords ==
  <<
    <<23458, 25143>>,  \* "客户"
    <<38376, 24215>>,  \* "门店"
    <<35746, 21333>>,  \* "订单"
    <<21830, 21697>>,  \* "商品"
    <<29992, 25143>>,  \* "用户"
    <<25968, 25454>>,  \* "数据"
    <<25509, 21475>>  \* "接口"
  >>

\* isUIBusinessText: stepBusinessKeywords (tree.go:1720-1722)
stepBusinessKeywords ==
  <<
    <<29992, 25143>>,  \* "用户"
    <<26597, 35810>>,  \* "查询"
    <<25351, 26631>>,  \* "指标"
    <<25968, 25454>>,  \* "数据"
    <<32467, 26524>>,  \* "结果"
    <<23637, 31034>>,  \* "展示"
    <<65, 103, 101, 110, 116>>,  \* "Agent"
    <<22810, 36718>>,  \* "多轮"
    <<23545, 35805>>,  \* "对话"
    <<25658, 24102>>,  \* "携带"
    <<19978, 19979, 25991>>,  \* "上下文"
    <<31579, 36873>>,  \* "筛选"
    <<26465, 20214>>,  \* "条件"
    <<20999, 25442>>,  \* "切换"
    <<20027, 39064>>,  \* "主题"
    <<24320, 22987>>,  \* "开始"
    <<26032>>,  \* "新"
    <<38382, 39064>>,  \* "问题"
    <<20307, 39564>>,  \* "体验"
    <<20248, 21270>>,  \* "优化"
    <<67, 82, 77>>,  \* "CRM"
    <<26234, 33021>>,  \* "智能"
    <<25968, 20540>>,  \* "数值"
    <<31354>>,  \* "空"
    <<25298, 31572>>,  \* "拒答"
    <<22330, 26223>>,  \* "场景"
    <<21382, 21490>>,  \* "历史"
    <<23384, 22312>>,  \* "存在"
    <<32500, 24230>>  \* "维度"
  >>

\* selectBestBusinessRootNode: priorityKeywords (tree.go:1536-1536)
priorityKeywords ==
  <<
    <<23458, 25143, 35814, 24773>>,  \* "客户详情"
    <<38376, 24215, 21015, 34920>>,  \* "门店列表"
    <<35814, 24773>>,  \* "详情"
    <<21015, 34920>>  \* "列表"
  >>

\* selectBestBusinessRootNode: avoidKeywords (tree.go:1546-1546)
avoidKeywords ==
  <<
    <<25509, 21475>>,  \* "接口"
    <<31995, 32479>>,  \* "系统"
    <<24179, 21488>>,  \* "平台"
    <<39564, 35777>>,  \* "验证"
    <<27979, 35797>>  \* "测试"
  >>

\* isBusinessText / isUIBusinessText: the prefixes "1." to "9." (tree.go:199-203)
numberPrefixes ==
  <<
    <<49, 46>>,  \* "1."
    <<50, 46>>,  \* "2."
    <<51, 46>>,  \* "3."
    <<52, 46>>,  \* "4."
    <<53, 46>>,  \* "5."
    <<54, 46>>,  \* "6."
    <<55, 46>>,  \* "7."
    <<56, 46>>,  \* "8."
    <<57, 46>>  \* "9."
  >>

\* isBusinessText: the API error response fragments (tree.go:169-170)
errorResponseMarkers ==
  <<
    <<65, 117, 116, 104, 32, 69, 82, 82, 79, 82>>,  \* "Auth ERROR"
    <<74, 119, 116, 32, 118, 97, 108, 105, 100, 97, 116, 101, 32, 102, 97, 105, 108, 101, 100>>,  \* "Jwt validate failed"
    <<65, 80, 73, 32, 82, 101, 115, 112, 111, 110, 115, 101>>,  \* "API Response"
    <<101, 114, 114, 67, 111, 100, 101>>  \* "errCode"
  >>

\* isBusinessText: prefixes of serialized technical values (tree.go:219-221)
technicalValuePrefixes ==
  <<
    <<101, 43>>,  \* "e+"
    <<69, 43>>,  \* "E+"
    <<91, 93>>,  \* "[]"
    <<123, 125>>,  \* "{}"
    <<109, 97, 112, 91>>  \* "map["
  >>

\* isBusinessText: fragments of serialized technical values (tree.go:221-223)
technicalValueFragments ==
  <<
    <<58, 32, 48>>,  \* ": 0"
    <<58, 32, 49>>,  \* ": 1"
    <<58, 32, 102, 97, 108, 115, 101>>,  \* ": false"
    <<58, 32, 116, 114, 117, 101>>,  \* ": true"
    <<114, 101, 97, 100, 32, 119, 114, 105, 116, 101>>  \* "read write"
  >>

\* New: default titleKeys (tree.go:27-27)
defaultTitleKeys ==
  <<
    <<99, 97, 115, 101, 95, 116, 105, 116, 108, 101>>,  \* "case_title"
    <<116, 105, 116, 108, 101>>,  \* "title"
    <<110, 97, 109, 101>>,  \* "name"
    <<108, 97, 98, 101, 108>>  \* "label"
  >>

\* New: default childrenKeys (tree.go:30-30)
defaultChildrenKeys ==
  <<
    <<99, 104, 105, 108, 100, 114, 101, 110>>,  \* "children"
    <<110, 111, 100, 101, 115>>,  \* "nodes"
    <<115, 117, 98, 95, 99, 97, 115, 101, 115>>,  \* "sub_cases"
    <<105, 116, 101, 109, 115>>,  \* "items"
    <<100, 97, 116, 97>>  \* "data"
  >>

\* ExtractTextContent: the title-like keys (tree.go:108-108)
textFieldKeys ==
  <<
    <<116, 105, 116, 108, 101>>,  \* "title"
    <<110, 97, 109, 101>>,  \* "name"
    <<108, 97, 98, 101, 108>>,  \* "label"
    <<109, 101, 115, 115, 97, 103, 101>>,  \* "message"
    <<100, 101, 115, 99, 114, 105, 112, 116, 105, 111, 110>>  \* "description"
  >>

\* String literals of tree.go, as sequences of code points.
K_data == <<100, 97, 116, 97>>  \* "data"
K_TestCaseMind == <<84, 101, 115, 116, 67, 97, 115, 101, 77, 105, 110, 100>>  \* "TestCaseMind"
K_text == <<116, 101, 120, 116>>  \* "text"
K_richText == <<114, 105, 99, 104, 84, 101, 120, 116>>  \* "richText"
K_children == <<99, 104, 105, 108, 100, 114, 101, 110>>  \* "children"
K_title == <<116, 105, 116, 108, 101>>  \* "title"
K_name == <<110, 97, 109, 101>>  \* "name"
K_items == <<105, 116, 101, 109, 115>>  \* "items"
K_nodes == <<110, 111, 100, 101, 115>>  \* "nodes"
K_type == <<116, 121, 112, 101>>  \* "type"
placeholderTitle == <<26410, 21629, 21517, 33410, 28857>>  \* "未命名节点" (tree.go:1402)
defaultTitle == <<65, 80, 73, 32, 82, 101, 115, 112, 111, 110, 115, 101>>  \* "API Response" (tree.go:923)
ampersand == <<38>>  \* "&" (tree.go:1705)
platformSuffix == <<31471>>  \* "端" (tree.go:1705)
objectSuffix == <<32, 40, 79, 98, 106, 101, 99, 116, 41>>  \* " (Object)" (tree.go:1010)
colonSpace == <<58, 32>>  \* ": " (tree.go:1017)
arrayInfix == <<32, 40, 65, 114, 114, 97, 121, 32, 45, 32>>  \* " (Array - " (tree.go:1037)
arraySuffix == <<32, 105, 116, 101, 109, 115, 41>>  \* " items)" (tree.go:1037)
indexOpen == <<91>>  \* "[" (tree.go:1044)
indexClose == <<93, 58, 32>>  \* "]: " (tree.go:1044)

\* Literals of the JSON syntax and of fmt.
L_null == <<110, 117, 108, 108>>  \* "null"
L_true == <<116, 114, 117, 101>>  \* "true"
L_false == <<102, 97, 108, 115, 101>>  \* "false"
L_nameField == <<34, 110, 97, 109, 101, 34, 58, 32>>  \* ""name": " (json tag of SimplifiedNode.Name, tree.go:20)
L_childrenField == <<34, 99, 104, 105, 108, 100, 114, 101, 110, 34, 58, 32>>  \* ""children": " (json tag of SimplifiedNode.Children, tree.go:21)
L_emptyArray == <<91, 93>>  \* "[]"
L_mapOpen == <<109, 97, 112, 91>>  \* "map["
L_nilValue == <<60, 110, 105, 108, 62>>  \* "<nil>"
L_u00 == <<92, 117, 48, 48>>  \* "\u00"

\* Texts of the sample payloads (tree_test.go, README.md, spec scenarios).
T_rootTitle == <<23458, 25143, 35814, 24773, 45, 38376, 24215, 21015, 34920>>  \* "客户详情-门店列表"
T_search == <<38376, 24215, 25628, 32034>>  \* "门店搜索"
T_input == <<36755, 20837, 23384, 22312, 30340, 38376, 24215, 21517, 31216>>  \* "输入存在的门店名称"
T_list == <<38376, 24215, 21015, 34920>>  \* "门店列表"
T_person == <<29579, 36890>>  \* "王通"
T_platform == <<80, 67, 31471>>  \* "PC端"
T_projectA == <<80, 114, 111, 106, 101, 99, 116, 32, 65>>  \* "Project A"
T_feature1 == <<70, 101, 97, 116, 117, 114, 101, 32, 49>>  \* "Feature 1"
T_errCode == <<101, 114, 114, 67, 111, 100, 101>>  \* "errCode"
T_step == <<49, 46, 32, 29992, 25143, 24320, 22987, 26032, 30340, 23545, 35805>>  \* "1. 用户开始新的对话"
T_aiGuide == <<65, 73, 21161, 25163, 24341, 23548, 25910, 36215>>  \* "AI助手引导收起"
T_tcc == <<37197, 32622, 116, 99, 99>>  \* "配置tcc"
T_createdAt == <<67, 114, 101, 97, 116, 101, 100, 65, 116>>  \* "CreatedAt"
T_numbered == <<49, 46, 38376, 24215>>  \* "1.门店"
T_dump == <<38376, 24215, 58, 32, 49>>  \* "门店: 1"
T_status == <<38376, 24215, 83, 116, 97, 116, 117, 115>>  \* "门店Status"
T_tccState ==
  <<20197, 25163, 21160, 25171, 24320, 29366, 24577, 20026, 20934, 65292, 116, 99, 99, 37197, 32622, 19981, 24433, 21709, 24403, 21069, 24320, 20851, 29366, 24577>>
T_apiCheck == <<25509, 21475, 39564, 35777>>  \* "接口验证"
T_symbols == <<65, 38, 66, 60, 67, 62, 39, 68>>  \* "A&B<C>'D"
T_ampersand == <<38376, 24215, 38, 23458, 25143>>  \* "门店&客户"
T_quoted == <<97, 34, 98, 92, 99>>  \* a"b\c
L_u0026 == <<92, 117, 48, 48, 50, 54>>  \* "\u0026"
L_u003c == <<92, 117, 48, 48, 51, 99>>  \* "\u003c"
L_u003e == <<92, 117, 48, 48, 51, 101>>  \* "\u003e"
L_u0027 == <<92, 117, 48, 48, 50, 55>>  \* "\u0027"
L_cutArray == <<91, 123, 125>>  \* "[{}"
K_id == <<105, 100>>  \* "id"
K_code == <<99, 111, 100, 101>>  \* "code"
K_msg == <<109, 115, 103>>  \* "msg"

(***************************************************************************)
(* Go string operations on rune sequences                                  *)
(***************************************************************************)
\* strings.Contains
Contains(s, sub) ==
  \E i \in 0..(Len(s) - Len(sub)) : \A j \in 1..Len(sub) : s[i + j] = sub[j]

\* strings.HasPrefix
HasPrefix(s, prefix) ==
  /\ Len(prefix) <= Len(s)
  /\ \A j \in 1..Len(prefix) : s[j] = prefix[j]

\* for _, keyword := range list { if strings.Contains(text, keyword) ... }
ContainsAny(s, list) == \E k \in 1..Len(list) : Contains(s, list[k])

\* for the prefixes "1." .. "9.": strings.HasPrefix(text, p) || ...
HasAnyPrefix(s, list) == \E k \in 1..Len(list) : HasPrefix(s, list[k])

\* unicode.ToLower on one rune: the ASCII upper-case letters map to lower case,
\* CJK ideographs, digits and punctuation map to themselves.
ToLowerRune(r) == IF r >= 65 /\ r <= 90 THEN r + 32 ELSE r

\* strings.ToLower
ToLower(s) == [i \in 1..Len(s) |-> ToLowerRune(s[i])]

\* strings.EqualFold: equality under simple case folding
EqualFold(s, t) == ToLower(s) = ToLower(t)

\* the number of bytes of the UTF-8 encoding of one rune
Utf8Width(r) == IF r < 128 THEN 1 ELSE IF r < 2048 THEN 2 ELSE IF r < 65536 THEN 3 ELSE 4

\* the sequences of seqs[lo..hi] joined end to end (halving keeps the nesting of
\* the evaluation logarithmic in the number of parts)
RECURSIVE ConcatRange(_, _, _)
ConcatRange(seqs, lo, hi) ==
  IF lo > hi THEN <<>>
  ELSE IF lo = hi THEN seqs[lo]
  ELSE LET mid == (lo + hi) \div 2
       IN ConcatRange(seqs, lo, mid) \o ConcatRange(seqs, mid + 1, hi)

Concat(seqs) == ConcatRange(seqs, 1, Len(seqs))

\* len(text) of a Go string: its length in bytes
ByteLen(s) == Len(Concat([i \in 1..Len(s) |-> [j \in 1..Utf8Width(s[i]) |-> s[i]]]))

\* len([]rune(text))
RuneLen(s) == Len(s)

(***************************************************************************)
(* Business text classifier                                                *)
(***************************************************************************)
\* hasChinese: some rune in U+4E00..U+9FFF
hasChinese(s) == \E i \in 1..Len(s) : s[i] >= 19968 /\ s[i] <= 40959

\* isEnglishBusinessText
isEnglishBusinessText(s) ==
  IF ByteLen(s) < 3 THEN FALSE
  ELSE ContainsAny(ToLower(s), meaningfulWords)

\* the personal-name filter as the comment of tree.go:174 describes it: 2-3 runes
looksLikePersonalName_UpToThreeRunes(s) ==
  /\ RuneLen(s) >= 2 /\ RuneLen(s) <= 3 /\ hasChinese(s)
  /\ ~ContainsAny(s, businessKeywords)

\* isBusinessText: the personal-name filter (tree.go:175-195) rejects
looksLikePersonalName(s) ==
  /\ RuneLen(s) >= 2 /\ RuneLen(s) <= 4 /\ hasChinese(s)
  /\ ~ContainsAny(s, businessKeywords)

\* isBusinessText: the numbered-step filter (tree.go:199-217) rejects
looksLikeTechnicalNumbering(s) ==
  /\ HasAnyPrefix(s, numberPrefixes) /\ RuneLen(s) < 10
  /\ ~ContainsAny(s, numberedBusinessKeywords)

\* isBusinessText: the serialized-value filter (tree.go:219-225) rejects
looksLikeTechnicalValue(s) ==
  \/ HasPrefix(s, technicalValuePrefixes[1]) \/ HasPrefix(s, technicalValuePrefixes[2])
  \/ HasPrefix(s, technicalValuePrefixes[3]) \/ HasPrefix(s, technicalValuePrefixes[4])
  \/ HasPrefix(s, technicalValuePrefixes[5])
  \/ ContainsAny(s, technicalValueFragments)

\* isBusinessText: the short technical words (tree.go:228-233) reject
isShortTechnicalWord(s) == \E k \in 1..Len(shortTechnicalWords) : EqualFold(s, shortTechnicalWords[k])

\* isBusinessText with a personal-name filter that consults no keyword list
isBusinessText_NoKeywordExemption(s) ==
  IF s = <<>> THEN FALSE
  ELSE IF ContainsAny(s, technicalKeywords) THEN FALSE
  ELSE IF ContainsAny(s, errorResponseMarkers) THEN FALSE
  ELSE IF RuneLen(s) >= 2 /\ RuneLen(s) <= 4 /\ hasChinese(s) THEN FALSE
  ELSE IF looksLikeTechnicalNumbering(s) THEN FALSE
  ELSE IF looksLikeTechnicalValue(s) THEN FALSE
  ELSE IF isShortTechnicalWord(s) THEN FALSE
  ELSE IF hasChinese(s) THEN TRUE
  ELSE IF isEnglishBusinessText(s) THEN TRUE
  ELSE FALSE

\* isBusinessText that rejects a technical keyword only as the whole text
isBusinessText_KeywordEquality(s) ==
  IF s = <<>> THEN FALSE
  ELSE IF \E k \in 1..Len(technicalKeywords) : s = technicalKeywords[k] THEN FALSE
  ELSE IF \E k \in 1..Len(errorResponseMarkers) : s = errorResponseMarkers[k] THEN FALSE
  ELSE IF looksLikePersonalName(s) THEN FALSE
  ELSE IF looksLikeTechnicalNumbering(s) THEN FALSE
  ELSE IF looksLikeTechnicalValue(s) THEN FALSE
  ELSE IF isShortTechnicalWord(s) THEN FALSE
  ELSE IF hasChinese(s) THEN TRUE
  ELSE IF isEnglishBusinessText(s) THEN TRUE
  ELSE FALSE

\* isBusinessText
isBusinessText(s) ==
  IF s = <<>> THEN FALSE
  ELSE IF ContainsAny(s, technicalKeywords) THEN FALSE
  ELSE IF ContainsAny(s, errorResponseMarkers) THEN FALSE
  ELSE IF looksLikePersonalName(s) THEN FALSE
  ELSE IF looksLikeTechnicalNumbering(s) THEN FALSE
  ELSE IF looksLikeTechnicalValue(s) THEN FALSE
  ELSE IF isShortTechnicalWord(s) THEN FALSE
  ELSE IF hasChinese(s) THEN TRUE
  ELSE IF isEnglishBusinessText(s) THEN TRUE
  ELSE FALSE

\* isUIBusinessText (the depth argument is not read by the code)
isUIBusinessText(s, depth) ==
  IF s = <<>> THEN FALSE
  ELSE IF ContainsAny(s, uiBusinessElements) THEN TRUE
  ELSE IF (Contains(s, ampersand) \/ Contains(s, platformSuffix))
          /\ ContainsAny(s, uiBusinessKeywords) THEN TRUE
  ELSE IF HasAnyPrefix(s, numberPrefixes) /\ ContainsAny(s, stepBusinessKeywords) THEN TRUE
  ELSE FALSE

(***************************************************************************)
(* Decoded JSON values (interface{} as json.Unmarshal fills it)            *)
(***************************************************************************)
Null == [t |-> "null"]
Bool(b) == [t |-> "bool", b |-> b]
Num(n) == [t |-> "num", n |-> n]
Str(s) == [t |-> "str", s |-> s]
Arr(a) == [t |-> "arr", a |-> a]
Obj(f) == [t |-> "obj", f |-> f]

\* v.(string), v.([]interface{}), v.(map[string]interface{}) with the comma-ok form
IsStr(v) == v.t = "str"
IsArr(v) == v.t = "arr"
IsObj(v) == v.t = "obj"
IsNull(v) == v.t = "null"

\* value, exists := m[key]
Has(f, key) == key \in DOMAIN f

\* the empty map and a map literal of one or two keys
EmptyMap == << >>
Map1(k, v) == k :> v
Map2(k1, v1, k2, v2) == (k1 :> v1) @@ (k2 :> v2)

(***************************************************************************)
(* encoding/json: decoding of a JSON text (json.Unmarshal into             *)
(* interface{}).  Integers are the only numbers of the model.              *)
(***************************************************************************)
ParseFail == [ok |-> FALSE, v |-> Null, i |-> 0]
ParseOk(v, i) == [ok |-> TRUE, v |-> v, i |-> i]

IsSpace(c) == c \in {32, 9, 10, 13}
IsDigit(c) == c >= 48 /\ c <= 57
IsHex(c) == IsDigit(c) \/ (c >= 97 /\ c <= 102) \/ (c >= 65 /\ c <= 70)
HexVal(c) == IF IsDigit(c) THEN c - 48 ELSE IF c >= 97 THEN c - 87 ELSE c - 55

RECURSIVE SkipSpace(_, _)
SkipSpace(s, i) == IF i <= Len(s) /\ IsSpace(s[i]) THEN SkipSpace(s, i + 1) ELSE i

\* the literal lit stands at position i of s
LiteralAt(s, i, lit) ==
  /\ i + Len(lit) - 1 <= Len(s)
  /\ \A j \in 1..Len(lit) : s[i + j - 1] = lit[j]

\* the rune a one-letter escape stands for, 0 when the letter is no escape
EscapeRune(c) ==
  CASE c = 34 -> 34      \* \"
    [] c = 92 -> 92      \* \\
    [] c = 47 -> 47      \* \/
    [] c = 98 -> 8       \* \b
    [] c = 102 -> 12     \* \f
    [] c = 110 -> 10     \* \n
    [] c = 114 -> 13     \* \r
    [] c = 116 -> 9      \* \t
    [] OTHER -> 0

\* the number of backslashes that stand immediately before position j, from lo on
RECURSIVE BackslashRun(_, _, _)
BackslashRun(s, j, lo) ==
  IF j > lo /\ s[j - 1] = 92 THEN 1 + BackslashRun(s, j - 1, lo) ELSE 0

\* the rune at j is the letter of an escape: an odd run of backslashes precedes it
Escaped(s, j, lo) == BackslashRun(s, j, lo) % 2 = 1

\* the rune at j is one of the four hex digits of a \uXXXX escape
HexOfEscape(s, j, lo) ==
  \E d \in 1..4 : j - d >= lo /\ s[j - d] = 117 /\ Escaped(s, j - d, lo)

\* the text of a string whose opening quote stands at i - 1: the runes up to
\* the first quote that is not escaped, the escapes replaced
ParseString(s, i, acc) ==
  LET closers == {j \in i..Len(s) : s[j] = 34 /\ ~Escaped(s, j, i)} IN
  IF closers = {} THEN ParseFail
  ELSE
    LET end == CHOOSE j \in closers : \A k \in closers : j <= k
        valid(p) ==
          IF Escaped(s, p, i) THEN
            IF s[p] = 117 THEN p + 4 < end /\ \A d \in 1..4 : IsHex(s[p + d])
            ELSE EscapeRune(s[p]) # 0
          ELSE s[p] >= 32
        rune(p) ==
          IF Escaped(s, p, i) THEN
            IF s[p] = 117
              THEN <<HexVal(s[p + 1]) * 4096 + HexVal(s[p + 2]) * 256
                     + HexVal(s[p + 3]) * 16 + HexVal(s[p + 4])>>
            ELSE <<EscapeRune(s[p])>>
          ELSE IF s[p] = 92 \/ HexOfEscape(s, p, i) THEN <<>>
          ELSE <<s[p]>>
    IN IF \A p \in i..(end - 1) : valid(p)
       THEN ParseOk(acc \o Concat([k \in 1..(end - i) |-> rune(i + k - 1)]), end + 1)
       ELSE ParseFail

\* the digits of a number, from position i
RECURSIVE ParseDigits(_, _, _)
ParseDigits(s, i, n) ==
  IF i <= Len(s) /\ IsDigit(s[i]) THEN ParseDigits(s, i + 1, n * 10 + (s[i] - 48))
  ELSE ParseOk(n, i)

RECURSIVE ParseValue(_, _)
RECURSIVE ParseMembers(_, _, _)
RECURSIVE ParseElements(_, _, _)

\* the members of an object after "{" or ",": "key": value, then "," or "}"
ParseMembers(s, i0, f) ==
  LET i == SkipSpace(s, i0) IN
  IF i > Len(s) \/ s[i] # 34 THEN ParseFail
  ELSE LET k == ParseString(s, i + 1, <<>>) IN
    IF ~k.ok THEN ParseFail
    ELSE LET c == SkipSpace(s, k.i) IN
      IF c > Len(s) \/ s[c] # 58 THEN ParseFail
      ELSE LET v == ParseValue(s, c + 1) IN
        IF ~v.ok THEN ParseFail
        ELSE LET e == SkipSpace(s, v.i)
                 g == (k.v :> v.v) @@ f  \* a repeated key keeps its last value
             IN
          IF e > Len(s) THEN ParseFail
          ELSE IF s[e] = 125 THEN ParseOk(Obj(g), e + 1)
          ELSE IF s[e] = 44 THEN ParseMembers(s, e + 1, g)
          ELSE ParseFail

\* the elements of an array after "[" or ",": value, then "," or "]"
ParseElements(s, i0, acc) ==
  LET v == ParseValue(s, i0) IN
  IF ~v.ok THEN ParseFail
  ELSE LET e == SkipSpace(s, v.i) IN
    IF e > Len(s) THEN ParseFail
    ELSE IF s[e] = 93 THEN ParseOk(Arr(Append(acc, v.v)), e + 1)
    ELSE IF s[e] = 44 THEN ParseElements(s, e + 1, Append(acc, v.v))
    ELSE ParseFail

ParseValue(s, i0) ==
  LET i == SkipSpace(s, i0) IN
  IF i > Len(s) THEN ParseFail
  ELSE IF s[i] = 123 THEN  \* {
    LET j == SkipSpace(s, i + 1) IN
    IF j <= Len(s) /\ s[j] = 125 THEN ParseOk(Obj(EmptyMap), j + 1)
    ELSE ParseMembers(s, i + 1, EmptyMap)
  ELSE IF s[i] = 91 THEN   \* [
    LET j == SkipSpace(s, i + 1) IN
    IF j <= Len(s) /\ s[j] = 93 THEN ParseOk(Arr(<<>>), j + 1)
    ELSE ParseElements(s, i + 1, <<>>)
  ELSE IF s[i] = 34 THEN
    LET r == ParseString(s, i + 1, <<>>) IN
    IF r.ok THEN ParseOk(Str(r.v), r.i) ELSE ParseFail
  ELSE IF LiteralAt(s, i, <<110, 117, 108, 108>>) THEN ParseOk(Null, i + 4)
  ELSE IF LiteralAt(s, i, <<116, 114, 117, 101>>) THEN ParseOk(Bool(TRUE), i + 4)
  ELSE IF LiteralAt(s, i, <<102, 97, 108, 115, 101>>) THEN ParseOk(Bool(FALSE), i + 5)
  ELSE IF IsDigit(s[i]) THEN
    IF s[i] = 48 THEN ParseOk(Num(0), i + 1)
    ELSE LET r == ParseDigits(s, i, 0) IN ParseOk(Num(r.v), r.i)
  ELSE IF s[i] = 45 /\ i + 1 <= Len(s) /\ IsDigit(s[i + 1]) THEN
    IF s[i + 1] = 48 THEN ParseOk(Num(0), i + 2)
    ELSE LET r == ParseDigits(s, i + 1, 0) IN ParseOk(Num(0 - r.v), r.i)
  ELSE ParseFail

\* json.Unmarshal: the value is the whole text, spaces aside
wholeText(s, r) ==
  IF r.ok /\ SkipSpace(s, r.i) = Len(s) + 1 THEN [ok |-> TRUE, v |-> r.v]
  ELSE [ok |-> FALSE, v |-> Null]

\* json.Unmarshal(data, &rawData) with rawData interface{}: [ok, v]
Unmarshal(s) == wholeText(s, ParseValue(s, 1))

\* json.Unmarshal(data, &m) with m map[string]interface{}: a JSON object fills
\* the map, JSON null leaves it nil (no error), any other value is an error
mapOfValue(r) ==
  IF ~r.ok THEN [ok |-> FALSE, m |-> EmptyMap]
  ELSE IF IsObj(r.v) THEN [ok |-> TRUE, m |-> r.v.f]
  ELSE IF IsNull(r.v) THEN [ok |-> TRUE, m |-> EmptyMap]
  ELSE [ok |-> FALSE, m |-> EmptyMap]

UnmarshalMap(s) == mapOfValue(Unmarshal(s))

(***************************************************************************)
(* strconv / fmt: the text of numbers and of values under %v               *)
(***************************************************************************)
RECURSIVE Digits(_)
Digits(n) == IF n < 10 THEN <<48 + n>> ELSE Digits(n \div 10) \o <<48 + (n % 10)>>

\* the decimal text of an integer (an integral float64 prints the same under %v)
Itoa(n) == IF n < 0 THEN <<45>> \o Digits(0 - n) ELSE Digits(n)

\* a < b in the byte order of Go strings (code point order, as UTF-8 keeps it)
RECURSIVE LexLess(_, _)
LexLess(a, b) ==
  IF b = <<>> THEN FALSE
  ELSE IF a = <<>> THEN TRUE
  ELSE IF Head(a) # Head(b) THEN Head(a) < Head(b)
  ELSE LexLess(Tail(a), Tail(b))

\* the keys of a set in ascending order
RECURSIVE SortedKeys(_)
SortedKeys(S) ==
  IF S = {} THEN <<>>
  ELSE LET m == CHOOSE x \in S : \A y \in S \ {x} : LexLess(x, y)
       IN <<m>> \o SortedKeys(S \ {m})

Reverse(q) == [i \in 1..Len(q) |-> q[Len(q) + 1 - i]]

\* the parts of a sequence of texts joined by a separator
RECURSIVE Join(_, _)
Join(parts, sep) ==
  IF parts = <<>> THEN <<>>
  ELSE IF Len(parts) = 1 THEN parts[1]
  ELSE parts[1] \o sep \o Join(Tail(parts), sep)

\* fmt.Sprintf("%v", v): strings print bare, maps print map[k:v ...] with
\* sorted keys, slices print [a b], nil prints <nil>
RECURSIVE FmtV(_)
FmtV(v) ==
  CASE v.t = "null" -> L_nilValue
    [] v.t = "bool" -> IF v.b THEN L_true ELSE L_false
    [] v.t = "num" -> Itoa(v.n)
    [] v.t = "str" -> v.s
    [] v.t = "arr" -> <<91>> \o Join([i \in 1..Len(v.a) |-> FmtV(v.a[i])], <<32>>) \o <<93>>
    [] v.t = "obj" ->
         LET ks == SortedKeys(DOMAIN v.f) IN
         L_mapOpen \o Join([i \in 1..Len(ks) |-> ks[i] \o <<58>> \o FmtV(v.f[ks[i]])], <<32>>)
                   \o <<93>>

(***************************************************************************)
(* encoding/json: json.MarshalIndent(result, "", "  ") of the result       *)
(***************************************************************************)
HexDigit(n) == IF n < 10 THEN 48 + n ELSE 87 + n

\* the escape of one rune in a JSON string: the quote and the backslash, the
\* control characters, and <, >, & and U+2028, U+2029 (HTML escaping is on)
MarshalRune(r) ==
  CASE r = 34 -> <<92, 34>>
    [] r = 92 -> <<92, 92>>
    [] r = 10 -> <<92, 110>>
    [] r = 13 -> <<92, 114>>
    [] r = 9 -> <<92, 116>>
    [] r < 32 /\ r \notin {9, 10, 13} -> L_u00 \o <<HexDigit(r \div 16), HexDigit(r % 16)>>
    [] r \in {60, 62, 38} -> L_u00 \o <<HexDigit(r \div 16), HexDigit(r % 16)>>
    [] r \in {8232, 8233} -> <<92, 117, 50, 48, 50, HexDigit(r % 16)>>
    [] OTHER -> <<r>>

MarshalRunes(s) == Concat([i \in 1..Len(s) |-> MarshalRune(s[i])])

MarshalString(s) == <<34>> \o MarshalRunes(s) \o <<34>>

\* a line break followed by the indentation of a nesting level
NewLine(level) == <<10>> \o [i \in 1..(2 * level) |-> 32]

\* *SimplifiedNode and []*SimplifiedNode at a nesting level
RECURSIVE MarshalNode(_, _)
RECURSIVE MarshalNodes(_, _)
MarshalNode(node, level) ==
  <<123>> \o NewLine(level + 1) \o L_nameField \o MarshalString(node.name) \o <<44>>
          \o NewLine(level + 1) \o L_childrenField \o MarshalNodes(node.children, level + 1)
          \o NewLine(level) \o <<125>>

MarshalNodes(nodes, level) ==
  IF nodes = <<>> THEN L_emptyArray
  ELSE <<91>> \o NewLine(level + 1)
       \o Join([i \in 1..Len(nodes) |-> MarshalNode(nodes[i], level + 1)],
               <<44>> \o NewLine(level + 1))
       \o NewLine(level) \o <<93>>

(***************************************************************************)
(* SimplifiedNode and the results the extraction routines return           *)
(*                                                                         *)
(* A *SimplifiedNode is <<>> (the nil pointer) or <<node>>.  A result of   *)
(* static type interface{} keeps its dynamic type: NilResult is the nil    *)
(* interface, PtrResult(p) holds a *SimplifiedNode (a nil pointer          *)
(* included: such an interface value is not equal to nil), SliceResult     *)
(* holds a []*SimplifiedNode.  A routine that can panic returns            *)
(* [panic, ...].                                                           *)
(***************************************************************************)
Node(name, children) == [name |-> name, children |-> children]

NilResult == [k |-> "nil", p |-> <<>>, nodes |-> <<>>]
PtrResult(p) == [k |-> "ptr", p |-> p, nodes |-> <<>>]
SliceResult(nodes) == [k |-> "slice", p |-> <<>>, nodes |-> nodes]

MinOf(S) == CHOOSE x \in S : \A y \in S : x <= y

\* for key, value := range m: the keys in the order the runtime yields them
RangeKeys(f) ==
  IF order = "ascending" THEN SortedKeys(DOMAIN f) ELSE Reverse(SortedKeys(DOMAIN f))

(***************************************************************************)
(* Generic extractor: findTitle, findChildren, extractTree                 *)
(***************************************************************************)
\* findTitle that looks under the first title key only
findTitle_FirstKeyOnly(f) ==
  IF Len(titleKeys) > 0 /\ Has(f, titleKeys[1]) /\ IsStr(f[titleKeys[1]])
  THEN f[titleKeys[1]].s ELSE <<>>

\* findTitle: the first titleKeys entry holding a non-empty string
findTitle(f) ==
  LET hits == {k \in 1..Len(titleKeys) :
                 /\ Has(f, titleKeys[k])
                 /\ IsStr(f[titleKeys[k]])
                 /\ f[titleKeys[k]].s # <<>>}
  IN IF hits = {} THEN <<>> ELSE f[titleKeys[MinOf(hits)]].s

\* findChildren: the first childrenKeys entry holding a non-empty array;
\* reflect.TypeOf(value).Kind() panics on a key that is present with nil
findChildren(f) ==
  LET stops == {k \in 1..Len(childrenKeys) :
                  /\ Has(f, childrenKeys[k])
                  /\ \/ IsNull(f[childrenKeys[k]])
                     \/ (IsArr(f[childrenKeys[k]]) /\ f[childrenKeys[k]].a # <<>>)}
  IN IF stops = {} THEN [panic |-> FALSE, children |-> <<>>]
     ELSE LET v == f[childrenKeys[MinOf(stops)]] IN
          IF IsNull(v) THEN [panic |-> TRUE, children |-> <<>>]
          ELSE [panic |-> FALSE, children |-> v.a]

\* a node with children, or nothing when it would have none
nodeWithChildren(name, kids) == IF Len(kids) > 0 THEN <<Node(name, kids)>> ELSE <<>>

\* extractTree, step 3: the children of the node a nested object value becomes
nestedObjectChildren(g, ks) ==
  Concat([i \in 1..Len(ks) |->
    IF IsStr(g[ks[i]]) /\ g[ks[i]].s # <<>>
      THEN <<Node(ks[i] \o colonSpace \o g[ks[i]].s, <<>>)>>
    ELSE IF ~IsNull(g[ks[i]])
      THEN <<Node(ks[i] \o colonSpace \o FmtV(g[ks[i]]), <<>>)>>
    ELSE <<>>])

\* extractTree, step 3: the child a nested object value becomes
nestedObjectNode(key, v) ==
  nodeWithChildren(key \o objectSuffix, nestedObjectChildren(v.f, RangeKeys(v.f)))

\* extractTree, step 3: the children of the node a nested array value becomes
nestedArrayChildren(a) ==
  Concat([i \in 1..Len(a) |->
    IF IsStr(a[i]) /\ a[i].s # <<>>
      THEN <<Node(indexOpen \o Itoa(i - 1) \o indexClose \o a[i].s, <<>>)>>
    ELSE IF ~IsNull(a[i])
      THEN <<Node(indexOpen \o Itoa(i - 1) \o indexClose \o FmtV(a[i]), <<>>)>>
    ELSE <<>>])

\* extractTree, step 3: the child a nested array value becomes
nestedArrayNode(key, v) ==
  nodeWithChildren(key \o arrayInfix \o Itoa(Len(v.a)) \o arraySuffix, nestedArrayChildren(v.a))

\* extractTree, step 3: what the value under one key adds, nil skipped
syntheticChild(key, v, title) ==
  IF key = title \/ IsNull(v) THEN <<>>
  ELSE IF IsObj(v) THEN nestedObjectNode(key, v)
  ELSE IF IsArr(v) THEN nestedArrayNode(key, v)
  ELSE <<>>

\* for key, value := range obj, in the order ks
syntheticOfKeys(f, title, ks) ==
  Concat([i \in 1..Len(ks) |-> syntheticChild(ks[i], f[ks[i]], title)])

\* extractTree, step 3: every key but the one equal to the title
syntheticChildren(f, title) == syntheticOfKeys(f, title, RangeKeys(f))

\* the elements of an array that are objects
objectsOf(array) == SelectSeq(array, IsObj)

\* extractTree, step 4: the node, if it has a title or children
nodeOrNil(title, children) ==
  IF title # <<>> \/ Len(children) > 0
    THEN [panic |-> FALSE, node |-> <<Node(title, children)>>]
  ELSE [panic |-> FALSE, node |-> <<>>]

\* extractTree, step 3: with no child built, the other keys give the children
treeOfBuilt(f, title, built) ==
  nodeOrNil(title, IF Len(built) = 0 THEN syntheticChildren(f, title) ELSE built)

\* extractTree, step 2: the children that built
treeOfSubs(f, title, subs) ==
  IF \E i \in 1..Len(subs) : subs[i].panic THEN [panic |-> TRUE, node |-> <<>>]
  ELSE treeOfBuilt(f, title, Concat([i \in 1..Len(subs) |-> subs[i].node]))

\* extractTree: [panic, node] with node a *SimplifiedNode
RECURSIVE extractTree(_, _)

\* extractTree, step 2: each object of the children array, one level deeper
treeOfChildren(f, title, found, depth) ==
  IF found.panic THEN [panic |-> TRUE, node |-> <<>>]
  ELSE treeOfSubs(f, title,
         [i \in 1..Len(objectsOf(found.children)) |->
            extractTree(objectsOf(found.children)[i].f, depth + 1)])

extractTree(f, depth) ==
  IF depth > maxDepth THEN [panic |-> FALSE, node |-> <<>>]
  ELSE treeOfChildren(f, findTitle(f), findChildren(f), depth)

\* tryStandardTreeStructure, a top-level array: the roots its objects build
standardOfRoots(subs, roots) ==
  IF \E i \in 1..Len(subs) : subs[i].panic THEN [panic |-> TRUE, res |-> NilResult]
  ELSE IF Len(roots) > 0 THEN [panic |-> FALSE, res |-> SliceResult(roots)]
  ELSE [panic |-> FALSE, res |-> NilResult]

standardOfSubs(subs) == standardOfRoots(subs, Concat([i \in 1..Len(subs) |-> subs[i].node]))

standardOfArray(objs) == standardOfSubs([i \in 1..Len(objs) |-> extractTree(objs[i].f, 0)])

\* tryStandardTreeStructure, a top-level object: the node itself
standardOfRoot(r) ==
  IF r.panic THEN [panic |-> TRUE, res |-> NilResult]
  ELSE IF r.node # <<>> THEN [panic |-> FALSE, res |-> PtrResult(r.node)]
  ELSE [panic |-> FALSE, res |-> NilResult]

\* the same with the node wrapped in a slice
standardOfRoot_Wrapped(r) ==
  IF r.panic THEN [panic |-> TRUE, res |-> NilResult]
  ELSE IF r.node # <<>> THEN [panic |-> FALSE, res |-> SliceResult(r.node)]
  ELSE [panic |-> FALSE, res |-> NilResult]

\* tryStandardTreeStructure that wraps the root of an object in a slice
tryStandardTreeStructure_RootWrapped(v) ==
  IF IsObj(v) THEN standardOfRoot_Wrapped(extractTree(v.f, 0))
  ELSE IF IsArr(v) THEN standardOfArray(objectsOf(v.a))
  ELSE [panic |-> FALSE, res |-> NilResult]

\* tryStandardTreeStructure: [panic, res]
tryStandardTreeStructure(v) ==
  IF IsObj(v) THEN standardOfRoot(extractTree(v.f, 0))
  ELSE IF IsArr(v) THEN standardOfArray(objectsOf(v.a))
  ELSE [panic |-> FALSE, res |-> NilResult]

(***************************************************************************)
(* Pattern-specific builder for the nested document of data.TestCaseMind   *)
(***************************************************************************)
\* selectBestBusinessRootNode: the score of one candidate
rootScore(node) ==
  LET nodeName == ToLower(node.name)
      avoided == Cardinality({k \in 1..Len(avoidKeywords) : Contains(nodeName, avoidKeywords[k])})
  IN (IF ContainsAny(nodeName, priorityKeywords) THEN 100 ELSE 0)
     - 50 * avoided
     + (IF Len(node.children) > 0 THEN 20 ELSE 0)
     + (IF RuneLen(node.name) >= 4 /\ RuneLen(node.name) <= 15 THEN 10 ELSE 0)

\* selectBestBusinessRootNode whose loop compares with >=: the last of the best
selectBestBusinessRootNode_LastOfBest(nodes) ==
  IF Len(nodes) = 0 THEN <<>>
  ELSE IF Len(nodes) = 1 THEN <<nodes[1]>>
  ELSE <<nodes[CHOOSE i \in 1..Len(nodes) :
                 /\ \A j \in 1..Len(nodes) : rootScore(nodes[j]) <= rootScore(nodes[i])
                 /\ \A j \in (i + 1)..Len(nodes) : rootScore(nodes[j]) < rootScore(nodes[i])]>>

\* selectBestBusinessRootNode: the first candidate of the highest score
selectBestBusinessRootNode(nodes) ==
  IF Len(nodes) = 0 THEN <<>>
  ELSE IF Len(nodes) = 1 THEN <<nodes[1]>>
  ELSE LET best == MinOf({i \in 1..Len(nodes) :
                            \A j \in 1..Len(nodes) : rootScore(nodes[j]) <= rootScore(nodes[i])})
       IN <<nodes[best]>>

\* parseTestCaseMindNode: the business texts of the richText array of data
richTextTitles(currentData) ==
  IF Has(currentData, K_richText) /\ IsArr(currentData[K_richText]) THEN
    LET items == currentData[K_richText].a IN
    Concat([i \in 1..Len(items) |->
      IF /\ IsObj(items[i])
         /\ Has(items[i].f, K_text)
         /\ IsStr(items[i].f[K_text])
         /\ items[i].f[K_text].s # <<>>
         /\ isBusinessText(items[i].f[K_text].s)
      THEN <<items[i].f[K_text].s>> ELSE <<>>])
  ELSE <<>>

\* parseTestCaseMindNode: the text field as a title
textTitle(currentData, depth) ==
  IF /\ Has(currentData, K_text)
     /\ IsStr(currentData[K_text])
     /\ currentData[K_text].s # <<>>
     /\ \/ isBusinessText(currentData[K_text].s)
        \/ isUIBusinessText(currentData[K_text].s, depth)
    THEN currentData[K_text].s
  ELSE <<>>

\* parseTestCaseMindNode: the first valid text of richText, else the text field
titleOf(valid, currentData, depth) ==
  IF Len(valid) > 0 THEN valid[1] ELSE textTitle(currentData, depth)

\* parseTestCaseMindNode: the title from richText, else from the text field
nodeTitle(currentData, depth) == titleOf(richTextTitles(currentData), currentData, depth)

\* childrenArray, ok := nodeData["children"].([]interface{}); ok && len > 0
childrenOf(f) ==
  IF Has(f, K_children) /\ IsArr(f[K_children]) THEN f[K_children].a ELSE <<>>

\* parseTestCaseMindNode: a *SimplifiedNode
RECURSIVE parseTestCaseMindNode(_, _)

\* the non-nil nodes the object elements of an array build at a depth
parseObjects(objs, depth) ==
  Concat([i \in 1..Len(objs) |-> parseTestCaseMindNode(objs[i].f, depth)])

parseEach(array, depth) == parseObjects(SelectSeq(array, IsObj), depth)

\* parseTestCaseMindNode: the node of a title and its children, nil without title
nodeOfTitleText(titleText, childrenArray, depth) ==
  IF titleText = <<>> THEN <<>>
  ELSE <<Node(titleText, parseEach(childrenArray, depth + 1))>>

\* parseTestCaseMindNode, once the title is known
nodeOfTitle(found, childrenArray, depth) ==
  IF found = <<>> /\ Len(childrenArray) > 0 /\ depth = 0 THEN
    \* a root without title: the best of its children stands in for it
    selectBestBusinessRootNode(parseEach(childrenArray, depth + 1))
  ELSE nodeOfTitleText(IF found = <<>> /\ Len(childrenArray) > 0 THEN placeholderTitle ELSE found,
                       childrenArray, depth)

parseTestCaseMindNode(nodeData, depth) ==
  IF depth > maxDepth THEN <<>>
  ELSE IF ~(Has(nodeData, K_data) /\ IsObj(nodeData[K_data])) THEN <<>>
  ELSE nodeOfTitle(nodeTitle(nodeData[K_data].f, depth), childrenOf(nodeData), depth)

\* a slice of nodes as a result, nil when there is none
slicesOrNil(validNodes) == IF Len(validNodes) > 0 THEN SliceResult(validNodes) ELSE NilResult

\* parseMultiRootNode
parseMultiRootNode(childrenArray, depth) == slicesOrNil(parseEach(childrenArray, depth + 1))

\* parseTestCaseMindStructurePattern: the final fallback (tree.go:543-564)
fallbackOfResult(m, result) ==
  IF result = <<>> THEN
    IF Len(childrenOf(m)) > 0 THEN parseMultiRootNode(childrenOf(m), 0)
    ELSE PtrResult(result)  \* return result: a nil pointer in a non-nil interface
  ELSE SliceResult(result)

patternFallback(m) == fallbackOfResult(m, parseTestCaseMindNode(m, 0))

\* parseTestCaseMindStructurePattern: the children as roots, else the fallback
patternOfChildren(m, validNodes) ==
  IF Len(validNodes) > 0 THEN SliceResult(validNodes) ELSE patternFallback(m)

\* parseTestCaseMindStructurePattern: a built root is wrapped in a slice
patternOfRoot(m, rootNode) ==
  IF Has(m, K_data) /\ rootNode # <<>> THEN SliceResult(rootNode)
  ELSE patternOfChildren(m, parseEach(childrenOf(m), 0))

\* the same with the built root returned as it is
patternOfRoot_Unwrapped(m, rootNode) ==
  IF Has(m, K_data) /\ rootNode # <<>> THEN PtrResult(rootNode)
  ELSE patternOfChildren(m, parseEach(childrenOf(m), 0))

\* parseTestCaseMindStructurePattern that returns a single root unwrapped
parseTestCaseMindStructurePattern_RootUnwrapped(m) ==
  patternOfRoot_Unwrapped(m, parseTestCaseMindNode(m, 0))

\* parseTestCaseMindStructurePattern
parseTestCaseMindStructurePattern(m) == patternOfRoot(m, parseTestCaseMindNode(m, 0))

\* the same returning a nil *SimplifiedNode when the nested document does not
\* decode
patternOfDecoded_NilPointer(decoded) ==
  IF ~decoded.ok THEN PtrResult(<<>>) ELSE parseTestCaseMindStructurePattern(decoded.m)

\* parseTestCaseMindStructureDirect: the decoded nested document
patternOfDecoded(decoded) ==
  IF ~decoded.ok THEN NilResult ELSE parseTestCaseMindStructurePattern(decoded.m)

\* parseTestCaseMindStructureDirect: the string of data.TestCaseMind
patternOfString(testCaseMindStr) ==
  IF ByteLen(testCaseMindStr) = 0 THEN NilResult
  ELSE patternOfDecoded(UnmarshalMap(testCaseMindStr))

\* parseTestCaseMindStructureDirect
parseTestCaseMindStructureDirect(v) ==
  IF ~IsObj(v) THEN NilResult
  ELSE IF ~Has(v.f, K_data) THEN NilResult
  ELSE IF ~IsObj(v.f[K_data]) THEN NilResult
  ELSE IF ~Has(v.f[K_data].f, K_TestCaseMind) THEN NilResult
  ELSE IF ~IsStr(v.f[K_data].f[K_TestCaseMind]) THEN NilResult
  ELSE patternOfString(v.f[K_data].f[K_TestCaseMind].s)

(***************************************************************************)
(* Text flattening: ExtractTextContent, createGenericBusinessTextStructure *)
(***************************************************************************)
\* textVal, ok := value.(string); ok && textVal != "" && e.isBusinessText(textVal)
businessString(v) == IF IsStr(v) /\ v.s # <<>> /\ isBusinessText(v.s) THEN <<v.s>> ELSE <<>>

\* ExtractTextContent: the business texts of the richText array of an object
richTexts(f) ==
  IF Has(f, K_richText) /\ IsArr(f[K_richText]) THEN
    Concat([i \in 1..Len(f[K_richText].a) |->
      IF IsObj(f[K_richText].a[i]) /\ Has(f[K_richText].a[i].f, K_text)
      THEN businessString(f[K_richText].a[i].f[K_text]) ELSE <<>>])
  ELSE <<>>

\* ExtractTextContent: the key is one of the text fields
isTextKey(key) ==
  \/ key = K_text \/ Contains(key, K_text)
  \/ \E k \in 1..Len(textFieldKeys) : key = textFieldKeys[k]

\* ExtractTextContent
RECURSIVE ExtractTextContent(_)

\* for key, value := range v, in the order ks
textsOfKeys(f, ks) ==
  Concat([i \in 1..Len(ks) |->
    IF isTextKey(ks[i]) THEN businessString(f[ks[i]]) ELSE ExtractTextContent(f[ks[i]])])

ExtractTextContent(v) ==
  IF IsStr(v) THEN businessString(v)
  ELSE IF IsObj(v) THEN richTexts(v.f) \o textsOfKeys(v.f, RangeKeys(v.f))
  ELSE IF IsArr(v) THEN Concat([i \in 1..Len(v.a) |-> ExtractTextContent(v.a[i])])
  ELSE <<>>

\* the business texts, each kept at its first occurrence
RECURSIVE uniqueBusinessTexts(_, _)
uniqueBusinessTexts(texts, seen) ==
  IF texts = <<>> THEN <<>>
  ELSE IF isBusinessText(Head(texts)) /\ Head(texts) \notin seen
    THEN <<Head(texts)>> \o uniqueBusinessTexts(Tail(texts), seen \cup {Head(texts)})
  ELSE uniqueBusinessTexts(Tail(texts), seen)

Swap(q, i, j) == [q EXCEPT ![i] = q[j], ![j] = q[i]]

\* the exchange sort of tree.go:947-953, longest text first
RECURSIVE sortInner(_, _, _)
sortInner(q, i, j) ==
  IF j > Len(q) THEN q
  ELSE IF RuneLen(q[i]) < RuneLen(q[j]) THEN sortInner(Swap(q, i, j), i, j + 1)
  ELSE sortInner(q, i, j + 1)

RECURSIVE sortByLength(_, _)
sortByLength(q, i) == IF i >= Len(q) THEN q ELSE sortByLength(sortInner(q, i, i + 1), i + 1)

\* the texts as leaves
leaves(texts) == [i \in 1..Len(texts) |-> Node(texts[i], <<>>)]

\* the texts but the one at an index
allBut(texts, index) ==
  [i \in 1..(Len(texts) - 1) |-> IF i < index THEN texts[i] ELSE texts[i + 1]]

\* the index of the first of the longest texts
longestIndex(texts) ==
  MinOf({i \in 1..Len(texts) : \A j \in 1..Len(texts) : RuneLen(texts[j]) <= RuneLen(texts[i])})

\* createGenericBusinessTextStructure: the longest text is the title, the
\* others its children, longest first
genericOfTitle(businessTexts, titleIndex) ==
  <<Node(businessTexts[titleIndex], leaves(sortByLength(allBut(businessTexts, titleIndex), 1)))>>

genericOfTexts(businessTexts) ==
  IF Len(businessTexts) = 0 THEN <<Node(defaultTitle, <<>>)>>
  ELSE genericOfTitle(businessTexts, longestIndex(businessTexts))

\* createGenericBusinessTextStructure: a *SimplifiedNode, never nil
createGenericBusinessTextStructure(v) ==
  genericOfTexts(uniqueBusinessTexts(ExtractTextContent(v), {}))

(***************************************************************************)
(* createDefaultStructure and Extract                                      *)
(***************************************************************************)
\* createDefaultStructure, third strategy: the business texts flattened
defaultOfStandardTree(v, standardTree) ==
  IF standardTree.panic
    THEN [panic |-> TRUE, res |-> NilResult, ran |-> <<"pattern", "generic">>]
  ELSE IF standardTree.res.k # "nil"
    THEN [panic |-> FALSE, res |-> standardTree.res, ran |-> <<"pattern", "generic">>]
  ELSE [panic |-> FALSE, res |-> PtrResult(createGenericBusinessTextStructure(v)),
        ran |-> <<"pattern", "generic", "flatten">>]

\* createDefaultStructure, second strategy: the generic extractor
defaultOfTestCaseMind(v, testCaseMindNodes) ==
  IF testCaseMindNodes.k # "nil"
    THEN [panic |-> FALSE, res |-> testCaseMindNodes, ran |-> <<"pattern">>]
  ELSE defaultOfStandardTree(v, tryStandardTreeStructure(v))

\* createDefaultStructure: [panic, res, ran] where ran lists the strategies
\* entered, in order
createDefaultStructure(v) == defaultOfTestCaseMind(v, parseTestCaseMindStructureDirect(v))

\* json.MarshalIndent(result, "", "  ")
MarshalIndent(res) ==
  IF res.k = "slice" THEN MarshalNodes(res.nodes, 0)
  ELSE IF res.k = "ptr" /\ res.p # <<>> THEN MarshalNode(res.p[1], 0)
  ELSE L_null

\* Extract, after createDefaultStructure: the result marshalled
extractOfBuilt(built) ==
  IF built.panic THEN [panic |-> TRUE, output |-> <<>>, err |-> "nil", ran |-> built.ran]
  ELSE IF built.res.k = "nil"
    THEN [panic |-> FALSE, output |-> <<>>, err |-> "no structure", ran |-> built.ran]
  ELSE [panic |-> FALSE, output |-> MarshalIndent(built.res), err |-> "nil", ran |-> built.ran]

\* Extract, after json.Unmarshal
extractOfDecoded(rawData) ==
  IF ~rawData.ok THEN [panic |-> FALSE, output |-> <<>>, err |-> "decode", ran |-> <<>>]
  ELSE extractOfBuilt(createDefaultStructure(rawData.v))

\* the same going on with a nil rawData when json.Unmarshal fails
extractOfDecoded_ErrorIgnored(rawData) ==
  extractOfBuilt(createDefaultStructure(IF rawData.ok THEN rawData.v ELSE Null))

(***************************************************************************)
(* The nesting of the recursive routines: the frames of one routine that   *)
(* are on the stack at once, counted along the calls the code makes        *)
(***************************************************************************)
\* the deepest of the nestings below a frame, 0 when it calls nothing
Deepest(S) == IF S = {} THEN 0 ELSE CHOOSE x \in S : \A y \in S : y <= x

\* ExtractTextContent: a frame per value, and below it the values of an array
\* and the values of an object that are not under a text key
RECURSIVE ExtractTextContentFrames(_)
ExtractTextContentFrames(v) ==
  IF IsObj(v) THEN
    1 + Deepest({ExtractTextContentFrames(v.f[k]) : k \in {k \in DOMAIN v.f : ~isTextKey(k)}})
  ELSE IF IsArr(v) THEN
    1 + Deepest({ExtractTextContentFrames(v.a[i]) : i \in 1..Len(v.a)})
  ELSE 1

\* extractTree: a frame per object, and below it the objects of the children
\* array unless the depth check or the panic ends the frame
RECURSIVE extractTreeFrames(_, _)
extractTreeFramesBelow(objs, depth) ==
  Deepest({extractTreeFrames(objs[i].f, depth) : i \in 1..Len(objs)})

extractTreeFrames(f, depth) ==
  IF depth > maxDepth THEN 1
  ELSE IF findChildren(f).panic THEN 1
  ELSE 1 + extractTreeFramesBelow(objectsOf(findChildren(f).children), depth + 1)

\* tryStandardTreeStructure: extractTree at depth 0 on the object, or on each
\* object of the array
tryStandardTreeStructureFrames(v) ==
  IF IsObj(v) THEN extractTreeFrames(v.f, 0)
  ELSE IF IsArr(v) THEN extractTreeFramesBelow(objectsOf(v.a), 0)
  ELSE 0

\* parseTestCaseMindNode: a frame per node, and below it the objects of the
\* children array unless the frame ends before it reads them
RECURSIVE parseTestCaseMindNodeFrames(_, _)
parseTestCaseMindNodeFramesBelow(objs, depth) ==
  Deepest({parseTestCaseMindNodeFrames(objs[i].f, depth) : i \in 1..Len(objs)})

parseTestCaseMindNodeFrames(nodeData, depth) ==
  IF depth > maxDepth THEN 1
  ELSE IF ~(Has(nodeData, K_data) /\ IsObj(nodeData[K_data])) THEN 1
  ELSE IF nodeTitle(nodeData[K_data].f, depth) = <<>> /\ Len(childrenOf(nodeData)) = 0 THEN 1
  ELSE 1 + parseTestCaseMindNodeFramesBelow(objectsOf(childrenOf(nodeData)), depth + 1)

\* parseTestCaseMindStructurePattern: parseTestCaseMindNode on the document at
\* depth 0 and, when that builds nothing, on its children at depth 0 (the
\* final fallback repeats these calls at depth 0 and 1)
parseTestCaseMindStructurePatternFrames(m, rootNode) ==
  IF Has(m, K_data) /\ rootNode # <<>> THEN parseTestCaseMindNodeFrames(m, 0)
  ELSE Deepest({parseTestCaseMindNodeFrames(m, 0),
                parseTestCaseMindNodeFramesBelow(objectsOf(childrenOf(m)), 0)})

\* parseTestCaseMindStructureDirect: the frames below, 0 when the nested
\* document is not reached
patternFramesOfDecoded(decoded) ==
  IF ~decoded.ok THEN 0
  ELSE parseTestCaseMindStructurePatternFrames(decoded.m, parseTestCaseMindNode(decoded.m, 0))

parseTestCaseMindStructureDirectFrames(v) ==
  IF ~IsObj(v) THEN 0
  ELSE IF ~Has(v.f, K_data) THEN 0
  ELSE IF ~IsObj(v.f[K_data]) THEN 0
  ELSE IF ~Has(v.f[K_data].f, K_TestCaseMind) THEN 0
  ELSE IF ~IsStr(v.f[K_data].f[K_TestCaseMind]) THEN 0
  ELSE IF ByteLen(v.f[K_data].f[K_TestCaseMind].s) = 0 THEN 0
  ELSE patternFramesOfDecoded(UnmarshalMap(v.f[K_data].f[K_TestCaseMind].s))

\* createDefaultStructure: the deepest nesting among the strategies it enters
framesOfStrategies(v, strategies) ==
  Deepest({IF strategies[i] = "pattern" THEN parseTestCaseMindStructureDirectFrames(v)
           ELSE IF strategies[i] = "generic" THEN tryStandardTreeStructureFrames(v)
           ELSE ExtractTextContentFrames(v) : i \in 1..Len(strategies)})

\* Extract: the deepest nesting of the call
framesOfDecoded(rawData) ==
  IF ~rawData.ok THEN 0 ELSE framesOfStrategies(rawData.v, createDefaultStructure(rawData.v).ran)

\* Extract that goes on with a nil rawData when json.Unmarshal fails
ExtractResult_DecodeErrorIgnored(bytes) == extractOfDecoded_ErrorIgnored(Unmarshal(bytes))

\* Extract: [panic, output, err, ran]
ExtractResult(bytes) == extractOfDecoded(Unmarshal(bytes))

(***************************************************************************)
(* The payloads handed to Extract                                          *)
(***************************************************************************)
\* the text of a string inside a JSON text: the quote and the backslash escaped
EscapeJSON(s) ==
  Concat([i \in 1..Len(s) |-> IF s[i] \in {34, 92} THEN <<92, s[i]>> ELSE <<s[i]>>])

\* the compact JSON text of a value, as a server writes it
RECURSIVE EncodeJSON(_)
EncodeJSON(v) ==
  CASE v.t = "null" -> L_null
    [] v.t = "bool" -> IF v.b THEN L_true ELSE L_false
    [] v.t = "num" -> Itoa(v.n)
    [] v.t = "str" -> <<34>> \o EscapeJSON(v.s) \o <<34>>
    [] v.t = "arr" -> <<91>> \o Join([i \in 1..Len(v.a) |-> EncodeJSON(v.a[i])], <<44>>) \o <<93>>
    [] v.t = "obj" ->
         LET ks == SortedKeys(DOMAIN v.f) IN
         <<123>> \o Join([i \in 1..Len(ks) |->
                      <<34>> \o EscapeJSON(ks[i]) \o <<34, 58>> \o EncodeJSON(v.f[ks[i]])], <<44>>)
                 \o <<125>>

\* the sequences over S of length 0..n
RECURSIVE SeqsUpTo(_, _)
SeqsUpTo(S, n) ==
  IF n = 0 THEN {<<>>}
  ELSE LET shorter == SeqsUpTo(S, n - 1) IN
       shorter \cup {Append(q, x) : q \in {r \in shorter : Len(r) = n - 1}, x \in S}

\* a node of the nested document: data and children are each <<>> (the key is
\* absent) or <<value>>
MindNode(dataOpt, childrenOpt) ==
  Obj((IF dataOpt = <<>> THEN EmptyMap ELSE K_data :> Obj(dataOpt[1]))
      @@ (IF childrenOpt = <<>> THEN EmptyMap ELSE K_children :> Arr(childrenOpt[1])))

TextData(t) == Map1(K_text, Str(t))
RichData(t) == Map1(K_richText, Arr(<<Obj(Map2(K_text, Str(t), K_type, Num(1)))>>))

\* the bounds of the payloads
MaxWidth == 2
MaxDepthSetting == 1
MaxTextLen == 4

LeafSearch == MindNode(<<TextData(T_search)>>, <<<<>>>>)
LeafInput == MindNode(<<RichData(T_input)>>, <<<<>>>>)
LeafPerson == MindNode(<<TextData(T_person)>>, <<>>)

\* the children of the root of the nested document: a titled node with a child,
\* an untitled node with children, a leaf only isUIBusinessText accepts, a node
\* without data
MidTitled == MindNode(<<TextData(T_list)>>, <<<<LeafSearch>>>>)
MidUntitled == MindNode(<<TextData(<<>>)>>, <<<<LeafPerson, LeafInput>>>>)
MidPlatform == MindNode(<<TextData(T_platform)>>, <<>>)
MidNoData == MindNode(<<>>, <<<<LeafSearch>>>>)
MidNodes == {MidTitled, MidUntitled, MidPlatform, MidNoData}

\* the data of the root: absent, an empty text, a text both classifiers reject,
\* a title
RootData == {<<>>, <<TextData(<<>>)>>, <<TextData(T_person)>>, <<TextData(T_rootTitle)>>}
MindDocs ==
  {MindNode(d, <<>>) : d \in RootData}
  \cup {MindNode(d, <<c>>) : d \in RootData, c \in SeqsUpTo(MidNodes, MaxWidth)}

\* {"data": {"TestCaseMind": <value>}}
MindPayload(v) == Obj(Map1(K_data, Obj(Map1(K_TestCaseMind, v))))

\* the first n runes of a text
Prefix(s, n) == SubSeq(s, 1, n)

ScenarioDoc == MindNode(<<TextData(T_rootTitle)>>, <<<<LeafSearch>>>>)

MindPayloads ==
  {MindPayload(Str(EncodeJSON(d))) : d \in MindDocs}
  \cup {MindPayload(Str(EncodeJSON(ScenarioDoc))),
        MindPayload(Str(<<>>)), MindPayload(Num(7)), MindPayload(Null),
        MindPayload(Str(L_null)), MindPayload(Str(L_emptyArray)),
        MindPayload(Str(T_search)),
        MindPayload(Str(Prefix(EncodeJSON(ScenarioDoc), Len(EncodeJSON(ScenarioDoc)) - 2))),
        Obj(Map1(K_data, Obj(EmptyMap)))}

\* a node of a plain tree: a title under titleKey, children under childrenKey
TreeNode(titleKey, title, childrenKey, children) ==
  Obj(Map2(titleKey, Str(title), childrenKey, Arr(children)))

TreeLeaf == TreeNode(K_name, T_feature1, K_nodes, <<>>)
TreeMid == TreeNode(K_title, T_feature1, K_items, <<TreeLeaf>>)
TreePayloads ==
  {TreeNode(tk, T_projectA, ck, c) :
     tk \in {K_title, K_name}, ck \in {K_items, K_nodes},
     c \in SeqsUpTo({TreeLeaf, TreeMid}, MaxWidth)}

\* [["门店列表", {"text": ["门店搜索"]}]]: a business text in an array under a
\* text key, next to one that is an item of an array
NestedTextPayload ==
  Arr(<<Arr(<<Str(T_list), Obj(Map1(K_text, Arr(<<Str(T_search)>>)))>>)>>)

\* payloads without a tree: scalars, empty containers, an untitled wrapper,
\* technical fields only, a null under a children key
OtherPayloads ==
  {Null, Num(5), Str(T_search), Arr(<<>>), Obj(EmptyMap),
   Obj(Map2(K_code, Num(0), K_msg, Str(T_errCode))),
   Obj(Map1(K_msg, Str(T_search))),
   Obj(Map1(K_items, Arr(<<Obj(Map1(K_name, Str(T_feature1)))>>))),
   Obj(Map1(K_items, Arr(<<Num(1), Str(T_search)>>))),
   Obj(Map2(K_title, Str(T_projectA), K_nodes, Null)),
   Arr(<<TreeNode(K_title, T_projectA, K_items, <<>>), Num(1),
         TreeNode(K_name, T_feature1, K_nodes, <<>>)>>),
   Arr(<<Arr(<<Arr(<<Str(T_search)>>)>>)>>),
   Obj(Map2(K_id, Str(T_list), K_msg, Str(T_search))),
   NestedTextPayload}

\* payloads whose titles hold &, <, > and an apostrophe, or a quote and a
\* backslash, or are longer than 50 bytes; a nested document cut after an object
SymbolPayloads ==
  {TreeNode(K_name, T_symbols, K_items, <<>>),
   TreeNode(K_name, T_quoted, K_items, <<>>),
   MindPayload(Str(EncodeJSON(MindNode(<<TextData(T_ampersand)>>, <<>>)))),
   MindPayload(Str(EncodeJSON(MindNode(<<TextData(T_tccState)>>, <<>>)))),
   MindPayload(Str(L_cutArray))}

Payloads == MindPayloads \cup TreePayloads \cup OtherPayloads \cup SymbolPayloads

\* byte strings that are no JSON text: a text cut before its end, the test's
\* {invalid json}, the empty input
InvalidJSON == <<123, 105, 110, 118, 97, 108, 105, 100, 32, 106, 115, 111, 110, 125>>
InvalidInputs ==
  {Prefix(EncodeJSON(p), Len(EncodeJSON(p)) - 1) : p \in OtherPayloads \ {Num(5)}}
  \cup {InvalidJSON, <<>>}

Inputs == {EncodeJSON(p) : p \in Payloads} \cup InvalidInputs

\* no call of selectBestBusinessRootNode is under way
NoScorerCall == candidates = <<>> /\ chosen = <<>>

\* No cURL command is being processed
NoCurlCall ==
  /\ command = <<>> /\ requestInfo = <<>> /\ parseErr = "nil"
  /\ step = "input" /\ request = <<>>

\* No command line is being run
NoRun == cliFlags = <<>> /\ env = <<>> /\ written = <<>>

\* No lookup of findTitle or findChildren is under way
NoLookup == lookupObj = <<>> /\ foundTitle = <<>> /\ foundChildren = <<>>

\* min that returns its first argument: the slice of tree.go:394 without its bound
min_FirstArgument(a, b) == a

(***************************************************************************)
(* The diagnostic code that runs when verbose is set: it prints, and its   *)
(* slice expressions panic when an index is out of range                   *)
(***************************************************************************)
\* min and max of tree.go
min(a, b) == IF a < b THEN a ELSE b

max(a, b) == IF a > b THEN a ELSE b

\* s[low:high] of a string of length bytes does not panic
sliceInRange(low, high, length) == 0 <= low /\ low <= high /\ high <= length

\* findLastValidJSONPosition: the byte offset after the brace that closes the
\* first object, 0 when there is none; rune k is next, offset bytes precede it
RECURSIVE findLastValidJSONPositionFrom(_, _, _, _, _, _)
findLastValidJSONPositionFrom(s, k, offset, bracketCount, inString, escaped) ==
  IF k > Len(s) THEN 0
  ELSE IF escaped
    THEN findLastValidJSONPositionFrom(s, k + 1, offset + Utf8Width(s[k]), bracketCount, inString, FALSE)
  ELSE IF s[k] = 92
    THEN findLastValidJSONPositionFrom(s, k + 1, offset + 1, bracketCount, inString, TRUE)
  ELSE IF s[k] = 34
    THEN findLastValidJSONPositionFrom(s, k + 1, offset + 1, bracketCount, ~inString, FALSE)
  ELSE IF s[k] = 123 /\ ~inString
    THEN findLastValidJSONPositionFrom(s, k + 1, offset + 1, bracketCount + 1, inString, FALSE)
  ELSE IF s[k] = 125 /\ ~inString
    THEN IF bracketCount - 1 = 0 THEN offset + 1
         ELSE findLastValidJSONPositionFrom(s, k + 1, offset + 1, bracketCount - 1, inString, FALSE)
  ELSE findLastValidJSONPositionFrom(s, k + 1, offset + Utf8Width(s[k]), bracketCount, inString, FALSE)

findLastValidJSONPosition(s) == findLastValidJSONPositionFrom(s, 1, 0, 0, FALSE, FALSE)

\* printJSONStructure: no str[:47] of it is out of range
RECURSIVE printJSONStructureInRange(_, _)
printJSONStructureInRange(v, indent) ==
  IF indent > 3 THEN TRUE
  ELSE IF IsObj(v) THEN
    \A key \in DOMAIN v.f :
      IF IsObj(v.f[key]) \/ IsArr(v.f[key])
        THEN indent < 2 => printJSONStructureInRange(v.f[key], indent + 1)
      ELSE (IsStr(v.f[key]) /\ ByteLen(v.f[key].s) > 50)
             => sliceInRange(0, 47, ByteLen(v.f[key].s))
  ELSE IF IsArr(v) THEN
    (Len(v.a) > 0 /\ indent < 2) => printJSONStructureInRange(v.a[1], indent + 1)
  ELSE TRUE

\* parseTestCaseMindStructureDirect under verbose: the first and the last 100
\* bytes of the string (tree.go:394-395)
headAndTailInRange(length) ==
  /\ sliceInRange(0, min(100, length), length)
  /\ sliceInRange(max(0, length - 100), length, length)

\* parseTestCaseMindStructureDirect under verbose: the fragment printed after a
\* decoding error (tree.go:429-433, here for every decoding error), the
\* structure printed after a success (tree.go:441)
decodedInRange(testCaseMindStr, decoded, lastValidPos) ==
  IF ~decoded.ok
    THEN lastValidPos > 0 => sliceInRange(0, lastValidPos, ByteLen(testCaseMindStr))
  ELSE printJSONStructureInRange(Obj(decoded.m), 0)

stringInRange(testCaseMindStr) ==
  /\ headAndTailInRange(ByteLen(testCaseMindStr))
  /\ ByteLen(testCaseMindStr) > 0 =>
       decodedInRange(testCaseMindStr, UnmarshalMap(testCaseMindStr),
                      findLastValidJSONPosition(testCaseMindStr))

\* the diagnostic code of parseTestCaseMindStructureDirect runs without panic
diagnosticsInRange(v) ==
  IF ~IsObj(v) THEN TRUE
  ELSE IF ~Has(v.f, K_data) THEN TRUE
  ELSE IF ~IsObj(v.f[K_data]) THEN TRUE
  ELSE IF ~Has(v.f[K_data].f, K_TestCaseMind) THEN TRUE
  ELSE IF ~IsStr(v.f[K_data].f[K_TestCaseMind]) THEN TRUE
  ELSE stringInRange(v.f[K_data].f[K_TestCaseMind].s)

\* Extract of an extractor that may be verbose: the call panics where the
\* diagnostic code does
panicOfDiagnostics(rawData) == rawData.ok /\ ~diagnosticsInRange(rawData.v)

ExtractVerbosely(bytes) ==
  IF verbose /\ panicOfDiagnostics(Unmarshal(bytes))
    THEN [panic |-> TRUE, output |-> <<>>, err |-> "nil", ran |-> <<"pattern">>]
  ELSE ExtractResult(bytes)

(***************************************************************************)
(* The extractor: New, SetMaxDepth, Extract                                *)
(***************************************************************************)
\* New
New(tk, ck, vb) ==
  [titleKeys |-> IF Len(tk) = 0 THEN defaultTitleKeys ELSE tk,
   childrenKeys |-> IF Len(ck) = 0 THEN defaultChildrenKeys ELSE ck,
   verbose |-> vb,
   maxDepth |-> 100]

\* the arguments the callers of New pass: no key lists and no logging, or the
\* key lists title, name and items, nodes with logging
NewArguments ==
  {<<<<>>, <<>>, FALSE>>, <<<<K_title, K_name>>, <<K_items, K_nodes>>, TRUE>>}

Init ==
  /\ \E args \in NewArguments :
       LET e == New(args[1], args[2], args[3]) IN
       /\ titleKeys = e.titleKeys
       /\ childrenKeys = e.childrenKeys
       /\ verbose = e.verbose
       /\ maxDepth = e.maxDepth
  /\ data \in Inputs
  /\ order \in {"ascending", "descending"}
  /\ pc = "ready"
  /\ output = <<>>
  /\ err = "nil"
  /\ ran = <<>>
  /\ frames = 0
  /\ text = <<>>
  /\ verdict = <<>>
  /\ uiVerdict = <<>>
  /\ NoScorerCall
  /\ previous = <<>>
  /\ NoCurlCall
  /\ NoRun
  /\ NoLookup

\* SetMaxDepth
SetMaxDepth(depth) ==
  /\ pc = "ready"
  /\ maxDepth' = depth
  /\ UNCHANGED <<titleKeys, childrenKeys, verbose, callVars, classifierVars, otherVars>>

\* Extract: returns (output, err) or panics
ExtractCall ==
  /\ pc = "ready"
  /\ LET r == ExtractVerbosely(data) IN
     /\ pc' = IF r.panic THEN "panicked" ELSE "done"
     /\ output' = r.output
     /\ err' = r.err
     /\ ran' = r.ran
  /\ frames' = framesOfDecoded(Unmarshal(data))
  /\ UNCHANGED <<extractorVars, data, order>>

Extract == ExtractCall /\ UNCHANGED <<classifierVars, otherVars>>

\* the caller keeps what Extract returned and is about to call it again on the
\* same bytes; the runtime orders the map ranges of that call anew
CallAgain ==
  /\ pc = "done"
  /\ previous = <<>>
  /\ previous' = <<[maxDepth |-> maxDepth, output |-> output, err |-> err]>>
  /\ order' \in {"ascending", "descending"}
  /\ pc' = "ready"
  /\ output' = <<>>
  /\ err' = "nil"
  /\ ran' = <<>>
  /\ frames' = 0
  /\ UNCHANGED <<extractorVars, data, classifierVars, scorerVars, curlVars, runVars, lookupVars>>

Next ==
  \/ \E depth \in 0..MaxDepthSetting : SetMaxDepth(depth)
  \/ Extract
  \/ CallAgain

Spec == Init /\ [][Next]_vars

(***************************************************************************)
(* The classifier on its own: isBusinessText and isUIBusinessText applied  *)
(* to one text                                                             *)
(***************************************************************************)
\* the runes the texts of the classifier calls are made of
Alphabet == {38376, 24215, 29579, 36890, 26519, 49, 46}

SampleTexts ==
  {T_rootTitle, T_search, T_input, T_list, T_person, T_platform, T_projectA, T_feature1,
   T_errCode, T_step, T_aiGuide, T_tcc, T_createdAt, T_numbered, T_dump, T_status,
   T_tccState}

ClassifierTexts == SeqsUpTo(Alphabet, MaxTextLen) \cup SampleTexts

ClassifyInit ==
  /\ titleKeys = defaultTitleKeys
  /\ childrenKeys = defaultChildrenKeys
  /\ verbose = FALSE
  /\ maxDepth = 100
  /\ data = <<>>
  /\ order = "ascending"
  /\ pc = "ready"
  /\ output = <<>>
  /\ err = "nil"
  /\ ran = <<>>
  /\ frames = 0
  /\ text \in ClassifierTexts
  /\ verdict = <<>>
  /\ uiVerdict = <<>>
  /\ NoScorerCall
  /\ previous = <<>>
  /\ NoCurlCall
  /\ NoRun
  /\ NoLookup

\* a call of isBusinessText(text)
CallIsBusinessText ==
  /\ verdict = <<>>
  /\ verdict' = <<isBusinessText(text)>>
  /\ UNCHANGED <<extractorVars, callVars, text, uiVerdict, otherVars>>

\* a call of isUIBusinessText(text, depth)
CallIsUIBusinessText(depth) ==
  /\ uiVerdict = <<>>
  /\ uiVerdict' = <<isUIBusinessText(text, depth)>>
  /\ UNCHANGED <<extractorVars, callVars, text, verdict, otherVars>>

ClassifyNext ==
  \/ CallIsBusinessText
  \/ \E depth \in 0..MaxDepthSetting : CallIsUIBusinessText(depth)

ClassifySpec == ClassifyInit /\ [][ClassifyNext]_vars

(***************************************************************************)
(* The root candidate scorer on its own: selectBestBusinessRootNode        *)
(* called repeatedly on one list of candidates                             *)
(***************************************************************************)
\* the longest list of candidates, and the calls made on it
MaxCandidates == 3
MaxCalls == 2

\* the names of the candidates: scores 110, 110, 10, 0 and -90 without children
CandidateNames == {T_rootTitle, T_list, T_search, T_platform, T_apiCheck}

\* a candidate is a built node, with or without a child
CandidateNodes ==
  {Node(n, c) : n \in CandidateNames, c \in {<<>>, <<Node(T_search, <<>>)>>}}

CandidateLists == SeqsUpTo(CandidateNodes, MaxCandidates)

SelectInit ==
  /\ titleKeys = defaultTitleKeys
  /\ childrenKeys = defaultChildrenKeys
  /\ verbose = FALSE
  /\ maxDepth = 100
  /\ data = <<>>
  /\ order = "ascending"
  /\ pc = "ready"
  /\ output = <<>>
  /\ err = "nil"
  /\ ran = <<>>
  /\ frames = 0
  /\ text = <<>>
  /\ verdict = <<>>
  /\ uiVerdict = <<>>
  /\ candidates \in CandidateLists
  /\ chosen = <<>>
  /\ previous = <<>>
  /\ NoCurlCall
  /\ NoRun
  /\ NoLookup

\* a call of selectBestBusinessRootNode(candidates): it reads the nodes and
\* writes none of them
CallSelectBest ==
  /\ Len(chosen) < MaxCalls
  /\ chosen' = Append(chosen, selectBestBusinessRootNode(candidates))
  /\ UNCHANGED <<extractorVars, callVars, classifierVars, candidates, previous, curlVars, runVars, lookupVars>>

SelectNext == CallSelectBest

SelectSpec == SelectInit /\ [][SelectNext]_vars

(***************************************************************************)
(* The cURL parser (internal/parser/curl.go, the version that knows        *)
(* cookies) and the HTTP executor (internal/http/executor.go).  A command  *)
(* is the sequence of its bytes; the commands of the model are ASCII, so   *)
(* a byte is a code point.  A Go offset i addresses element i + 1.         *)
(***************************************************************************)
W_curl == <<99, 117, 114, 108>>  \* "curl" (curl.go:327)
W_CURL == <<67, 85, 82, 76>>  \* "CURL" (curl.go:328)
M_GET == <<71, 69, 84>>  \* "GET" (curl.go:283)
M_POST == <<80, 79, 83, 84>>  \* "POST" (curl.go:316)
F_X == <<45, 88>>  \* "-X" (curl.go:551)
F_request == <<45, 45, 114, 101, 113, 117, 101, 115, 116>>  \* "--request" (curl.go:551)
F_H == <<45, 72>>  \* "-H" (curl.go:566)
F_header == <<45, 45, 104, 101, 97, 100, 101, 114>>  \* "--header" (curl.go:566)
F_b == <<45, 98>>  \* "-b" (part_001:13)
F_cookie == <<45, 45, 99, 111, 111, 107, 105, 101>>  \* "--cookie" (part_001:13)
F_dataBinary == <<45, 45, 100, 97, 116, 97, 45, 98, 105, 110, 97, 114, 121>>  \* "--data-binary" (curl.go:587)
F_dataRaw == <<45, 45, 100, 97, 116, 97, 45, 114, 97, 119>>  \* "--data-raw" (curl.go:589)
F_data == <<45, 45, 100, 97, 116, 97>>  \* "--data" (curl.go:592)
F_d == <<45, 100>>  \* "-d" (curl.go:595)
U_http == <<104, 116, 116, 112>>  \* "http" (curl.go:600)
U_slashes == <<58, 47, 47>>  \* "://" (curl.go:600)
U_bytest == <<98, 121, 116, 101, 115, 116, 46, 98, 121, 116, 101, 100, 97, 110, 99, 101, 46, 110, 101, 116>>  \* "bytest.bytedance.net" (curl.go:606)
H_ContentType == <<67, 111, 110, 116, 101, 110, 116, 45, 84, 121, 112, 101>>  \* "Content-Type" (executor.go:71)
H_json == <<97, 112, 112, 108, 105, 99, 97, 116, 105, 111, 110, 47, 106, 115, 111, 110>>  \* "application/json" (executor.go:72)

\* args[i] of Go (offsets count from 0)
At(s, i) == s[i + 1]

\* s[lo:hi] of Go
Slice(s, lo, hi) == SubSeq(s, lo + 1, hi)

\* strings.Index: the offset of the first occurrence of sub in s, -1 without one
Index(s, sub) ==
  IF Contains(s, sub)
    THEN MinOf({i \in 0..(Len(s) - Len(sub)) : LiteralAt(s, i + 1, sub)})
  ELSE -1

\* unicode.IsSpace on the code points below 256
unicodeSpace == {9, 10, 11, 12, 13, 32, 133, 160}

\* the class \s of Go's regexp syntax: [\t\n\f\r ]
regexpSpace == {9, 10, 12, 13, 32}

\* the code points a command of the model is made of
Bytes == 0..127

\* strings.Trim(s, cutset), cutset given as a set of code points
RECURSIVE TrimLeft(_, _)
TrimLeft(s, cutset) ==
  IF s # <<>> /\ Head(s) \in cutset THEN TrimLeft(Tail(s), cutset) ELSE s

RECURSIVE TrimRight(_, _)
TrimRight(s, cutset) ==
  IF s # <<>> /\ s[Len(s)] \in cutset THEN TrimRight(SubSeq(s, 1, Len(s) - 1), cutset) ELSE s

Trim(s, cutset) == TrimRight(TrimLeft(s, cutset), cutset)

\* strings.TrimSpace
TrimSpace(s) == Trim(s, unicodeSpace)

\* strings.TrimPrefix
TrimPrefix(s, prefix) ==
  IF HasPrefix(s, prefix) THEN SubSeq(s, Len(prefix) + 1, Len(s)) ELSE s

\* strings.Split(s, sep) for a separator of one code point
RECURSIVE Split(_, _)
Split(s, sep) ==
  IF Contains(s, <<sep>>)
    THEN <<Slice(s, 0, Index(s, <<sep>>))>> \o Split(Slice(s, Index(s, <<sep>>) + 1, Len(s)), sep)
  ELSE <<s>>

\* strings.SplitN(s, sep, 2) for a separator of one code point
SplitN2(s, sep) ==
  IF Contains(s, <<sep>>)
    THEN <<Slice(s, 0, Index(s, <<sep>>)), Slice(s, Index(s, <<sep>>) + 1, Len(s))>>
  ELSE <<s>>

\* removeCurlKeyword (curl.go:325-331)
removeCurlKeyword(curlCmd) == TrimSpace(TrimPrefix(TrimPrefix(curlCmd, W_curl), W_CURL))

\* the positions a repetition of the class C can end at when it starts at position
\* i and takes at least `least` characters (the position is that of the next character)
RunEnds(s, i, C, least) ==
  {j \in (i + least)..(Len(s) + 1) : \A k \in i..(j - 1) : s[k] \in C}

\* where the greedy repetition of the class C ends when it starts at position i
RECURSIVE RunEnd(_, _, _)
RunEnd(s, i, C) == IF i <= Len(s) /\ s[i] \in C THEN RunEnd(s, i + 1, C) ELSE i

\* the assertion $ of Go's regexp syntax (without the flag m): the end of the text
EndOfText(s, j) == j = Len(s) + 1

upperCase == 65..90
quotes == {34, 39}

\* `(['"]?)`: the positions the pattern can go on from after an optional quote at q
afterOptionalQuote(s, q) == {q} \cup (IF q <= Len(s) /\ s[q] \in quotes THEN {q + 1} ELSE {})

\* `([A-Z]+)$1` at position a: Go's regexp syntax has no backreference, `$1` is the
\* end of the text followed by the character 1
methodEnds(s, a) ==
  {b \in RunEnds(s, a, upperCase, 1) : EndOfText(s, b) /\ LiteralAt(s, b, <<49>>)}

\* the matches of `(?:-X|--request)\s+(['"]?)([A-Z]+)$1` that start with the
\* flag at position start (curl.go:551)
flagMatches(s, start, flag) ==
  IF LiteralAt(s, start, flag)
    THEN UNION {UNION {{[start |-> start, method |-> SubSeq(s, a, b - 1)] : b \in methodEnds(s, a)} :
                         a \in afterOptionalQuote(s, q)} :
                  q \in RunEnds(s, start + Len(flag), regexpSpace, 1)}
  ELSE {}

methodMatches(s) ==
  UNION {flagMatches(s, start, F_X) \cup flagMatches(s, start, F_request) : start \in 1..Len(s)}

\* the leftmost of the matches, its method as long as it can be
firstMatch(found) ==
  CHOOSE m \in found :
    \A o \in found : m.start < o.start \/ (m.start = o.start /\ Len(o.method) <= Len(m.method))

\* matches := re.FindStringSubmatch(curlCmd); if len(matches) > 2 { info.Method =
\* matches[2] } (curl.go:552-562): the method set from the flag, else GET
methodOfMatches(found) == IF found = {} THEN M_GET ELSE firstMatch(found).method

methodOfCommand(curlCmd) == methodOfMatches(methodMatches(curlCmd))

\* the class [^'"\s] of the URL patterns
urlChars == Bytes \ (quotes \cup regexpSpace)

\* `(https?://<host>[^'"\s]+)` at position h: <<>> without a match, else <<the URL>>
urlAfterScheme(s, h, k, host) ==
  IF LiteralAt(s, k, U_slashes \o host) /\ RunEnd(s, k + Len(U_slashes \o host), urlChars) > k + Len(U_slashes \o host)
    THEN <<SubSeq(s, h, RunEnd(s, k + Len(U_slashes \o host), urlChars) - 1)>>
  ELSE <<>>

urlAt(s, h, host) ==
  IF ~LiteralAt(s, h, U_http) THEN <<>>
  ELSE IF LiteralAt(s, h + 4, <<115>>) /\ urlAfterScheme(s, h, h + 5, host) # <<>>
    THEN urlAfterScheme(s, h, h + 5, host)
  ELSE urlAfterScheme(s, h, h + 4, host)

\* `^\s*curl\s+['"]?(https?://[^'"\s]+)` (curl.go:600): the pattern is applied to
\* the command Parse has already taken the keyword from
urlAfterKeyword(s, c) ==
  IF LiteralAt(s, c, W_curl) /\ RunEnd(s, c + 4, regexpSpace) > c + 4
    THEN IF urlAt(s, RunEnd(s, c + 4, regexpSpace), <<>>) # <<>>
           THEN urlAt(s, RunEnd(s, c + 4, regexpSpace), <<>>)
         ELSE IF RunEnd(s, c + 4, regexpSpace) <= Len(s) /\ s[RunEnd(s, c + 4, regexpSpace)] \in quotes
           THEN urlAt(s, RunEnd(s, c + 4, regexpSpace) + 1, <<>>)
         ELSE <<>>
  ELSE <<>>

firstURL(curlCmd) == urlAfterKeyword(curlCmd, RunEnd(curlCmd, 1, regexpSpace))

\* `['"]?(https?://bytest\.bytedance\.net[^'"\s]+)['"]?` (curl.go:606): the first
\* URL of that host anywhere in the command
backupPositions(s) == {h \in 1..Len(s) : urlAt(s, h, U_bytest) # <<>>}

backupURL(s) == IF backupPositions(s) = {} THEN <<>> ELSE urlAt(s, MinOf(backupPositions(s)), U_bytest)

\* curl.go:598-611: the URL of the command, "" when neither pattern matches
urlOfMatches(first, s) ==
  IF first # <<>> THEN first[1]
  ELSE IF backupURL(s) # <<>> THEN backupURL(s)[1]
  ELSE <<>>

urlOfCommand(curlCmd) == urlOfMatches(firstURL(curlCmd), curlCmd)

\* the loop over a quoted value (curl.go:422-457): i is the offset of the next byte,
\* result what the builder holds; an escaped quote or backslash loses its
\* backslash, any other escape keeps it
RECURSIVE quotedValue(_, _, _, _)
quotedValue(args, i, quote, result) ==
  IF i >= Len(args) THEN result
  ELSE IF At(args, i) = 92 /\ i + 1 < Len(args)
    THEN IF At(args, i + 1) \in {34, 39, 92}
           THEN quotedValue(args, i + 2, quote, Append(result, At(args, i + 1)))
         ELSE quotedValue(args, i + 2, quote, result \o <<92, At(args, i + 1)>>)
  ELSE IF At(args, i) = quote THEN result
  ELSE quotedValue(args, i + 1, quote, Append(result, At(args, i)))

\* the brace and bracket counts after the character (curl.go:517-526)
countAfter(count, char, open, close) ==
  IF char = open THEN count + 1 ELSE IF char = close THEN count - 1 ELSE count

\* a character that ends an unquoted value once the braces and brackets are closed
\* (curl.go:528-539): blank space, or a dash before a space or a dash
endsValue(args, i) ==
  \/ At(args, i) \in {32, 9}
  \/ At(args, i) = 45 /\ i + 1 < Len(args) /\ At(args, i + 1) \in {32, 45}

\* extractUnquotedData (curl.go:471-545), its loop from offset i on
RECURSIVE unquotedValue(_, _, _, _, _, _, _)
unquotedValue(args, i, result, bracketCount, braceCount, inString, stringChar) ==
  IF i >= Len(args) THEN result
  ELSE IF At(args, i) = 92 /\ i + 1 < Len(args)
    THEN unquotedValue(args, i + 2, result \o <<92, At(args, i + 1)>>,
                       bracketCount, braceCount, inString, stringChar)
  ELSE IF inString
    THEN IF At(args, i) = stringChar
           THEN unquotedValue(args, i + 1, Append(result, At(args, i)),
                              bracketCount, braceCount, FALSE, 0)
         ELSE unquotedValue(args, i + 1, Append(result, At(args, i)),
                            bracketCount, braceCount, inString, stringChar)
  ELSE IF At(args, i) \in {34, 39}
    THEN unquotedValue(args, i + 1, Append(result, At(args, i)),
                       bracketCount, braceCount, TRUE, At(args, i))
  ELSE IF /\ countAfter(braceCount, At(args, i), 123, 125) = 0
          /\ countAfter(bracketCount, At(args, i), 91, 93) = 0
          /\ endsValue(args, i)
    THEN result
  ELSE unquotedValue(args, i + 1, Append(result, At(args, i)),
                     countAfter(bracketCount, At(args, i), 91, 93),
                     countAfter(braceCount, At(args, i), 123, 125), inString, stringChar)

extractUnquotedData(args, startIndex) ==
  IF startIndex >= Len(args) THEN <<>>
  ELSE unquotedValue(args, startIndex, <<>>, 0, 0, FALSE, 0)

\* the offset after the blanks that follow offset startIndex (curl.go:409-411)
RECURSIVE skipBlanks(_, _)
skipBlanks(args, startIndex) ==
  IF startIndex < Len(args) /\ At(args, startIndex) \in {32, 9}
    THEN skipBlanks(args, startIndex + 1)
  ELSE startIndex

\* extractDataParameter from the offset of the value on (curl.go:413-462)
valueAt(args, startIndex) ==
  IF startIndex >= Len(args) THEN <<>>
  ELSE IF At(args, startIndex) \in {34, 39}
    THEN quotedValue(args, startIndex + 1, At(args, startIndex), <<>>)
  ELSE extractUnquotedData(args, startIndex)

\* extractDataParameter (curl.go:398-463)
extractDataParameter(args, paramType) ==
  IF Index(args, paramType) = -1 THEN <<>>
  ELSE valueAt(args, skipBlanks(args, Index(args, paramType) + Len(paramType)))

\* info.Body of parseComplexCurl (curl.go:586-596): the first of the four
\* parameters that yields a value
RECURSIVE bodyOfParameters(_, _)
bodyOfParameters(curlCmd, paramTypes) ==
  IF paramTypes = <<>> THEN <<>>
  ELSE IF extractDataParameter(curlCmd, Head(paramTypes)) # <<>>
    THEN extractDataParameter(curlCmd, Head(paramTypes))
  ELSE bodyOfParameters(curlCmd, Tail(paramTypes))

bodyOfCommand(curlCmd) == bodyOfParameters(curlCmd, <<F_dataBinary, F_dataRaw, F_data, F_d>>)

\* `(?:<flag>|<flag>)\s+` at position p: the position after the blank space, 0 when
\* no flag of the list stands at p with blank space after it
RECURSIVE afterFlag(_, _, _)
afterFlag(s, p, flags) ==
  IF flags = <<>> THEN 0
  ELSE IF /\ LiteralAt(s, p, Head(flags))
          /\ RunEnd(s, p + Len(Head(flags)), regexpSpace) > p + Len(Head(flags))
    THEN RunEnd(s, p + Len(Head(flags)), regexpSpace)
  ELSE afterFlag(s, p, Tail(flags))

\* the class [^'"\\] of the cookie pattern
plainChars == Bytes \ {34, 39, 92}

\* `[^'"\\]*(?:\\.[^'"\\]*)*` from position g: where the group ends
RECURSIVE cookieEnd(_, _)
cookieEndFrom(s, e) ==
  IF e + 1 <= Len(s) /\ s[e] = 92 /\ s[e + 1] # 10 THEN cookieEnd(s, e + 2) ELSE e

cookieEnd(s, g) == cookieEndFrom(s, RunEnd(s, g, plainChars))

\* the position after an optional quote at position q
afterQuote(s, q) == IF q <= Len(s) /\ s[q] \in quotes THEN q + 1 ELSE q

\* cookieRe.FindAllStringSubmatch(curlCmd, -1) (part_001:13-14): the groups of the
\* matches of `(?:-b|--cookie)\s+['"]?([^'"\\]*(?:\\.[^'"\\]*)*)['"]?` from position p on
RECURSIVE cookieStringsFrom(_, _)
cookieStringsAt(s, g) ==
  <<SubSeq(s, g, cookieEnd(s, g) - 1)>> \o cookieStringsFrom(s, afterQuote(s, cookieEnd(s, g)))

cookieStringsFrom(s, p) ==
  IF p > Len(s) THEN <<>>
  ELSE IF afterFlag(s, p, <<F_b, F_cookie>>) = 0 THEN cookieStringsFrom(s, p + 1)
  ELSE cookieStringsAt(s, afterQuote(s, afterFlag(s, p, <<F_b, F_cookie>>)))

\* parts := strings.SplitN(cookie, "=", 2) and what follows (part_001:31-38,
\* root.go:255-263)
cookieOfParts(cookies, parts) ==
  IF Len(parts) = 2 /\ TrimSpace(parts[1]) # <<>>
    THEN (TrimSpace(parts[1]) :> TrimSpace(parts[2])) @@ cookies
  ELSE cookies

\* one pass of the loop over the pairs (part_001:24-39, root.go:249-264)
cookieOfPair(cookies, cookie) ==
  IF TrimSpace(cookie) = <<>> THEN cookies
  ELSE cookieOfParts(cookies, SplitN2(TrimSpace(cookie), 61))

RECURSIVE cookiesOfPairs(_, _)
cookiesOfPairs(cookies, pairs) ==
  IF pairs = <<>> THEN cookies
  ELSE cookiesOfPairs(cookieOfPair(cookies, Head(pairs)), Tail(pairs))

\* the loop over the matches (part_001:16-41)
RECURSIVE cookiesOfStrings(_, _)
cookiesOfStrings(cookies, strs) ==
  IF strs = <<>> THEN cookies
  ELSE cookiesOfStrings(cookiesOfPairs(cookies, Split(Trim(Head(strs), quotes), 59)), Tail(strs))

\* parseCookies of the parser (part_001:11-42): info.Cookies after the call
parseCookies(curlCmd) == cookiesOfStrings(EmptyMap, cookieStringsFrom(curlCmd, 1))

\* parseCookies of the command line (root.go:241-266)
cli_parseCookies(cookieStr) ==
  IF cookieStr = <<>> THEN EmptyMap ELSE cookiesOfPairs(EmptyMap, Split(cookieStr, 59))

\* headerReQuoted.FindAllStringSubmatch (curl.go:566, 570): the groups of the
\* matches of `(?:-H|--header)\s+["']([^"']+)["']` from position p on
RECURSIVE quotedHeadersFrom(_, _)
quotedHeaderAt(s, p, a, r) ==
  IF a <= Len(s) /\ s[a] \in quotes /\ r > a + 1 /\ r <= Len(s)
    THEN <<SubSeq(s, a + 1, r - 1)>> \o quotedHeadersFrom(s, r + 1)
  ELSE quotedHeadersFrom(s, p + 1)

quotedHeadersFrom(s, p) ==
  IF p > Len(s) THEN <<>>
  ELSE IF afterFlag(s, p, <<F_H, F_header>>) = 0 THEN quotedHeadersFrom(s, p + 1)
  ELSE quotedHeaderAt(s, p, afterFlag(s, p, <<F_H, F_header>>),
                      RunEnd(s, afterFlag(s, p, <<F_H, F_header>>) + 1, Bytes \ quotes))

\* headerReUnquoted.FindAllStringSubmatch (curl.go:567, 571): the groups of the
\* matches of `(?:-H|--header)\s+([^"'\s][^\s]*?)\s` from position p on
RECURSIVE unquotedHeadersFrom(_, _)
unquotedHeaderAt(s, p, a, w) ==
  IF a <= Len(s) /\ s[a] \notin quotes /\ w <= Len(s)
    THEN <<SubSeq(s, a, w - 1)>> \o unquotedHeadersFrom(s, w + 1)
  ELSE unquotedHeadersFrom(s, p + 1)

unquotedHeadersFrom(s, p) ==
  IF p > Len(s) THEN <<>>
  ELSE IF afterFlag(s, p, <<F_H, F_header>>) = 0 THEN unquotedHeadersFrom(s, p + 1)
  ELSE unquotedHeaderAt(s, p, afterFlag(s, p, <<F_H, F_header>>),
                        RunEnd(s, afterFlag(s, p, <<F_H, F_header>>), Bytes \ regexpSpace))

\* parseHeader (curl.go:379-387): the headers after the call
headerOfParts(headers, parts) ==
  IF Len(parts) # 2 THEN headers
  ELSE (TrimSpace(parts[1]) :> TrimSpace(parts[2])) @@ headers

parseHeader(header, headers) == headerOfParts(headers, SplitN2(header, 58))

\* for _, match := range headerMatches (curl.go:573-581)
RECURSIVE headersOfMatches(_, _)
headersOfMatches(headers, matches) ==
  IF matches = <<>> THEN headers
  ELSE headersOfMatches(parseHeader(Head(matches), headers), Tail(matches))

headersOfCommand(curlCmd) ==
  headersOfMatches(EmptyMap, quotedHeadersFrom(curlCmd, 1) \o unquotedHeadersFrom(curlCmd, 1))

\* config.RequestInfo (tree_test.go:246-252)
RequestInfo(URL, Method, Headers, Cookies, Body) ==
  [URL |-> URL, Method |-> Method, Headers |-> Headers, Cookies |-> Cookies, Body |-> Body]

\* parseComplexCurl (curl.go:549-614); it returns no error
parseComplexCurl(curlCmd) ==
  RequestInfo(urlOfCommand(curlCmd), methodOfCommand(curlCmd), headersOfCommand(curlCmd),
              parseCookies(curlCmd), bodyOfCommand(curlCmd))

\* the errors of Parse: "cURL命令为空" (curl.go:289) and "未在cURL命令中找到URL" (curl.go:312)
ErrEmptyCommand == "empty command"
ErrNoURL == "no URL in the command"

\* Parse after parseComplexCurl (curl.go:302-321): the URL, the method, the body
\* and the headers are copied, the cookies are not; a body turns GET into POST
parseOfComplex(complexInfo) ==
  IF complexInfo.URL = <<>> THEN [info |-> <<>>, err |-> ErrNoURL]
  ELSE [info |-> <<RequestInfo(complexInfo.URL,
                               IF complexInfo.Body # <<>> /\ complexInfo.Method = M_GET
                                 THEN M_POST ELSE complexInfo.Method,
                               complexInfo.Headers, EmptyMap, complexInfo.Body)>>,
        err |-> "nil"]

\* CurlParser.Parse (curl.go:281-322)
Parse(curlCmd) ==
  IF curlCmd = <<>> THEN [info |-> <<>>, err |-> ErrEmptyCommand]
  ELSE parseOfComplex(parseComplexCurl(removeCurlKeyword(TrimSpace(curlCmd))))

\* the token characters of a header name or a method (net/http, RFC 7230)
tokenChars ==
  (48..57) \cup (65..90) \cup (97..122) \cup
  {33, 35, 36, 37, 38, 39, 42, 43, 45, 46, 94, 95, 96, 124, 126}

ToUpperRune(r) == IF r >= 97 /\ r <= 122 THEN r - 32 ELSE r

\* textproto.CanonicalMIMEHeaderKey, which req.Header.Set and Get apply to the key:
\* a key of token characters gets its first letter and the letters after a dash
\* in upper case and the others in lower case, any other key is left as it is
CanonicalKey(key) ==
  IF \E i \in 1..Len(key) : key[i] \notin tokenChars THEN key
  ELSE [i \in 1..Len(key) |->
          IF i = 1 \/ key[i - 1] = 45 THEN ToUpperRune(key[i]) ELSE ToLowerRune(key[i])]

\* for key, value := range info.Headers { req.Header.Set(key, value) }
\* (executor.go:66-68)
RECURSIVE headerOfKeys(_, _, _)
headerOfKeys(header, headers, keys) ==
  IF keys = <<>> THEN header
  ELSE headerOfKeys((CanonicalKey(Head(keys)) :> headers[Head(keys)]) @@ header,
                    headers, Tail(keys))

\* the default Content-Type of a request with a body (executor.go:70-73)
withContentType(header, body) ==
  IF body # <<>> /\ (~Has(header, H_ContentType) \/ header[H_ContentType] = <<>>)
    THEN (H_ContentType :> H_json) @@ header
  ELSE header

\* http.NewRequest refuses a method that is no token and a URL with a control
\* character; an empty method stands for GET
validMethod(method) == \A i \in 1..Len(method) : method[i] \in tokenChars
validURL(url) == \A i \in 1..Len(url) : url[i] >= 32 /\ url[i] # 127

\* the request Execute builds (executor.go:52-73): the method, the URL, the body
\* and the headers of info; info.Cookies is not read
requestOf(info) ==
  [Method |-> IF info.Method = <<>> THEN M_GET ELSE info.Method,
   URL |-> info.URL,
   Header |-> withContentType(headerOfKeys(EmptyMap, info.Headers, RangeKeys(info.Headers)),
                              info.Body),
   Body |-> info.Body]

\* parseHeaders of the command line (root.go:229-239)
cli_parseHeaders(headerSlice) == headersOfMatches(EmptyMap, headerSlice)

(***************************************************************************)
(* Processing a request: Process parses the command with CurlParser.Parse, *)
(* or takes the RequestInfo runRoot built from the flags, and hands the    *)
(* RequestInfo to Executor.Execute (curl.go:720-741, root.go:158-165).     *)
(***************************************************************************)
P_post == <<45, 88, 32, 80, 79, 83, 84, 32>>  \* -X POST 
P_put == <<45, 88, 32, 80, 85, 84, 32>>  \* -X PUT 
P_delete == <<45, 45, 114, 101, 113, 117, 101, 115, 116, 32, 68, 69, 76, 69, 84, 69, 32>>  \* --request DELETE 
P_patch == <<45, 88, 32, 39, 80, 65, 84, 67, 72, 39, 32>>  \* -X 'PATCH' 
P_example == <<104, 116, 116, 112, 58, 47, 47, 101, 120, 97, 109, 112, 108, 101, 46, 99, 111, 109>>  \* http://example.com
P_exampleApi == <<34, 104, 116, 116, 112, 58, 47, 47, 101, 120, 97, 109, 112, 108, 101, 46, 99, 111, 109, 47, 97, 112, 105, 34>>  \* "http://example.com/api"
P_bytest == <<104, 116, 116, 112, 115, 58, 47, 47, 98, 121, 116, 101, 115, 116, 46, 98, 121, 116, 101, 100, 97, 110, 99, 101, 46, 110, 101, 116, 47, 97, 112, 105>>  \* https://bytest.bytedance.net/api
P_bytestQuoted == <<39, 104, 116, 116, 112, 115, 58, 47, 47, 98, 121, 116, 101, 115, 116, 46, 98, 121, 116, 101, 100, 97, 110, 99, 101, 46, 110, 101, 116, 47, 97, 112, 105, 39>>  \* 'https://bytest.bytedance.net/api'
P_data == <<32, 45, 45, 100, 97, 116, 97, 32, 39, 123, 34, 107, 101, 121, 34, 58, 32, 34, 118, 97, 108, 117, 101, 34, 125, 39>>  \*  --data '{"key": "value"}'
P_b == <<32, 45, 98, 32, 39, 107, 49, 61, 118, 49, 59, 32, 107, 50, 61, 118, 50, 39>>  \*  -b 'k1=v1; k2=v2'
P_cookie == <<32, 45, 45, 99, 111, 111, 107, 105, 101, 32, 34, 107, 49, 61, 118, 49, 59, 32, 107, 50, 61, 118, 50, 34>>  \*  --cookie "k1=v1; k2=v2"
P_all == <<32, 45, 72, 32, 39, 99, 111, 110, 116, 101, 110, 116, 45, 116, 121, 112, 101, 58, 32, 116, 101, 120, 116, 47, 112, 108, 97, 105, 110, 39, 32, 45, 72, 32, 65, 99, 99, 101, 112, 116, 58, 116, 101, 120, 116, 47, 104, 116, 109, 108, 32, 45, 98, 32, 39, 107, 49, 61, 118, 49, 59, 32, 107, 50, 61, 118, 50, 39, 32, 45, 100, 32, 120>>  \*  -H 'content-type: text/plain' -H Accept:text/html -b 'k1=v1; k2=v2' -d x
P_cookieHeader == <<67, 111, 111, 107, 105, 101, 58, 32, 107, 49, 61, 118, 49>>  \* Cookie: k1=v1
P_pairs == <<107, 49, 61, 118, 49, 59, 32, 107, 50, 61, 118, 50>>  \* k1=v1; k2=v2
P_braces == <<123, 125>>  \* {}
P_cookieName == <<67, 111, 111, 107, 105, 101>>  \* Cookie
P_k1 == <<107, 49>>  \* k1
P_v1 == <<118, 49>>  \* v1
P_k2 == <<107, 50>>  \* k2
P_v2 == <<118, 50>>  \* v2

MethodParts == {<<>>, P_post, P_put, P_delete, P_patch}
TargetParts == {<<>>, P_example, P_exampleApi, P_bytest, P_bytestQuoted}
OptionParts == {<<>>, P_data, P_b, P_cookie, P_all}

\* the commands: curl, a method flag, a target, options; the empty command; a
\* command that names the keyword twice; a command with its flag after the target
Commands ==
  {W_curl \o <<32>> \o m \o t \o o : m \in MethodParts, t \in TargetParts, o \in OptionParts}
    \cup {<<>>, W_curl \o <<32>> \o W_curl \o <<32>> \o P_example,
          W_curl \o <<32>> \o P_bytest \o <<32>> \o P_put}

\* the RequestInfo runRoot builds from --url, --method, --header, --cookies and
\* --data (root.go:158-165)
FlagInfos ==
  {RequestInfo(url, method, cli_parseHeaders(headers), cli_parseCookies(cookies), body) :
     url \in {P_example, P_bytest}, method \in {M_GET, M_POST},
     headers \in {<<>>, <<P_cookieHeader>>}, cookies \in {<<>>, P_pairs},
     body \in {<<>>, P_braces}}

ParseInit ==
  /\ titleKeys = defaultTitleKeys
  /\ childrenKeys = defaultChildrenKeys
  /\ verbose = FALSE
  /\ maxDepth = 100
  /\ data = <<>>
  /\ order \in {"ascending", "descending"}
  /\ pc = "ready"
  /\ output = <<>>
  /\ err = "nil"
  /\ ran = <<>>
  /\ frames = 0
  /\ text = <<>>
  /\ verdict = <<>>
  /\ uiVerdict = <<>>
  /\ NoScorerCall
  /\ previous = <<>>
  /\ \/ command \in Commands /\ requestInfo = <<>>
     \/ command = <<>> /\ requestInfo \in {<<info>> : info \in FlagInfos}
  /\ parseErr = "nil"
  /\ step = "input"
  /\ request = <<>>
  /\ NoRun
  /\ NoLookup

\* req, err = p.curlParser.Parse(input) (curl.go:725-730); an empty input with no
\* RequestInfo reaches Parse through ParseCurlOnly (curl.go:807-809)
CallParse ==
  /\ step = "input"
  /\ requestInfo = <<>>
  /\ requestInfo' = Parse(command).info
  /\ parseErr' = Parse(command).err
  /\ step' = IF Parse(command).err = "nil" THEN "parsed" ELSE "parse failed"
  /\ UNCHANGED <<extractorVars, callVars, classifierVars, scorerVars, previous, command, request,
                 runVars, lookupVars>>

K_message == <<109, 101, 115, 115, 97, 103, 101>>  \* "message"
W_error == <<101, 114, 114, 111, 114>>  \* "error"
W_auth == <<97, 117, 116, 104>>  \* "auth"
W_unauthorized == <<117, 110, 97, 117, 116, 104, 111, 114, 105, 122, 101, 100>>  \* "unauthorized"
T_authError == <<65, 117, 116, 104, 32, 69, 82, 82, 79, 82>>  \* "Auth ERROR"

\* ResponseValidator.Validate (curl.go:643-669): "响应体为空", "JSON解析失败" or nil
ErrEmptyResponse == "empty response"
ErrInvalidJSON == "invalid JSON"

\* Validate that accepts every response
Validate_AcceptsEverything(responseData) == "nil"

Validate(responseData) ==
  IF Len(responseData) = 0 THEN ErrEmptyResponse
  ELSE IF ~Unmarshal(responseData).ok THEN ErrInvalidJSON
  ELSE "nil"

\* errCode is a number other than 0 (curl.go:824-828)
hasErrorCode(response) ==
  Has(response, T_errCode) /\ response[T_errCode].t = "num" /\ response[T_errCode].n # 0

\* the message test (curl.go:831-838): && binds tighter than ||, and messageStr is
\* "" when the message is no string
messageString(message) == IF IsStr(message) THEN ToLower(message.s) ELSE <<>>

hasErrorMessage(response) ==
  /\ Has(response, K_message)
  /\ \/ IsStr(response[K_message]) /\ Contains(messageString(response[K_message]), W_error)
     \/ Contains(messageString(response[K_message]), W_auth)
     \/ Contains(messageString(response[K_message]), W_unauthorized)

\* the data test (curl.go:841-850): no data field, or a data object without
\* TestCaseMind
lacksTestCaseMind(response) ==
  IF Has(response, K_data)
    THEN IsObj(response[K_data]) /\ ~Has(response[K_data].f, K_TestCaseMind)
  ELSE TRUE

isErrorResponseOfMap(decoded) ==
  \/ ~decoded.ok
  \/ hasErrorCode(decoded.m)
  \/ hasErrorMessage(decoded.m)
  \/ lacksTestCaseMind(decoded.m)

\* Processor.isErrorResponse (curl.go:817-852)
isErrorResponse(responseData) == isErrorResponseOfMap(UnmarshalMap(responseData))

\* the response bodies: the README's ordinary tree, the nested document, the
\* nested document beside an errCode of 0, beside an errCode of 401, beside an
\* error message, a data object without the field, an array, bytes that are no
\* JSON, no bytes
RestTree == TreeNode(K_title, T_projectA, K_nodes, <<TreeLeaf>>)
MindResponse == MindPayload(Str(EncodeJSON(ScenarioDoc)))

Responses ==
  {EncodeJSON(RestTree),
   EncodeJSON(MindResponse),
   EncodeJSON(Obj(Map2(T_errCode, Num(0), K_data, MindResponse.f[K_data]))),
   EncodeJSON(Obj(Map2(T_errCode, Num(401), K_data, MindResponse.f[K_data]))),
   EncodeJSON(Obj(Map2(K_message, Str(T_authError), K_data, MindResponse.f[K_data]))),
   EncodeJSON(Obj(Map1(K_data, Obj(EmptyMap)))),
   EncodeJSON(Arr(<<RestTree>>)),
   EncodeJSON(MindPayload(Str(T_person))),
   InvalidJSON,
   <<>>}

\* client.Do sends only a request whose URL has the scheme http or https
hasHTTPScheme(url) ==
  HasPrefix(url, U_http \o U_slashes) \/ HasPrefix(url, U_http \o <<115>> \o U_slashes)

\* responseData, err := p.httpExecutor.Execute(req) (curl.go:738, executor.go:29-124):
\* the request is built and sent; whether an answer comes back, and with which
\* body (whatever its status code), is the network's choice
CallExecute ==
  /\ step = "parsed" \/ (step = "input" /\ requestInfo # <<>>)
  /\ IF validMethod(requestInfo[1].Method) /\ validURL(requestInfo[1].URL)
       THEN /\ request' = <<requestOf(requestInfo[1])>>
            /\ \/ /\ hasHTTPScheme(requestInfo[1].URL)
                  /\ step' = "executed"
                  /\ data' \in Responses
               \/ /\ step' = "execute failed"
                  /\ data' = data
     ELSE /\ request' = <<>>
          /\ step' = "execute failed"
          /\ data' = data
  /\ UNCHANGED <<extractorVars, order, pc, output, err, ran, frames, classifierVars,
                 scorerVars, previous, command, requestInfo, parseErr, runVars, lookupVars>>

ParseNext == CallParse \/ CallExecute

ParseSpec == ParseInit /\ [][ParseNext]_vars

(***************************************************************************)
(* A run of the command line (root.go:88-178): runRoot checks the input    *)
(* flags, takes the cURL command from a flag, a file or stdin, calls       *)
(* Process (curl.go:720-768) and writes what it returns to the output file *)
(***************************************************************************)
I_raw == <<99, 117, 114, 108, 32, 104, 116, 116, 112, 115, 58, 47, 47, 98, 121, 116, 101, 115, 116, 46, 98, 121, 116, 101, 100, 97, 110, 99, 101, 46, 110, 101, 116, 47, 97, 112, 105>>  \* curl https://bytest.bytedance.net/api
I_from == <<99, 117, 114, 108>>  \* curl
I_fileName == <<99, 117, 114, 108, 46, 116, 120, 116>>  \* curl.txt
I_file == <<99, 117, 114, 108, 32, 104, 116, 116, 112, 58, 47, 47, 101, 120, 97, 109, 112, 108, 101, 46, 99, 111, 109, 10>>  \* curl http://example.com and a line feed
I_stdin == <<99, 117, 114, 108, 32, 39, 104, 116, 116, 112, 115, 58, 47, 47, 98, 121, 116, 101, 115, 116, 46, 98, 121, 116, 101, 100, 97, 110, 99, 101, 46, 110, 101, 116, 47, 97, 112, 105, 39, 10>>  \* curl 'https://bytest.bytedance.net/api' and a line feed

\* the input flags and arguments of a run; a flag that is not given is ""
CliFlags ==
  [rawCurl : {<<>>, I_raw}, fromCurl : {<<>>, I_from}, curlFile : {<<>>, I_fileName},
   url : {<<>>, P_bytest}, args : {<<>>, <<P_bytest>>}]

\* what the run finds outside: the text on stdin, and the file of --curl-file
\* (<<>> when there is no such file)
Environments == [stdin : {I_stdin}, file : {<<>>, <<I_file>>}]

\* fromCurl after the arguments were appended to it (root.go:90-93)
fromCurlWithArgs(f) ==
  IF f.fromCurl # <<>> /\ Len(f.args) > 0
    THEN f.fromCurl \o <<32>> \o Join(f.args, <<32>>)
  ELSE f.fromCurl

\* inputCount of validateInput (root.go:182-194)
inputCount(rawCurl, fromCurl, curlFile, url) ==
  (IF rawCurl # <<>> THEN 1 ELSE 0) + (IF fromCurl # <<>> THEN 1 ELSE 0)
    + (IF curlFile # <<>> THEN 1 ELSE 0) + (IF url # <<>> THEN 1 ELSE 0)

\* validateInput (root.go:180-205): "必须指定一种输入方式…", "只能指定一种输入方式" or nil
ErrNoInput == "no input given"
ErrManyInputs == "more than one input given"

validateInput(f) ==
  IF inputCount(f.rawCurl, fromCurlWithArgs(f), f.curlFile, f.url) = 0 THEN ErrNoInput
  ELSE IF inputCount(f.rawCurl, fromCurlWithArgs(f), f.curlFile, f.url) > 1 THEN ErrManyInputs
  ELSE "nil"

\* the switch of runRoot (root.go:113-148): [err, input]; readFromFile and
\* readFromStdin trim the text they read
inputOf(f, e) ==
  IF f.rawCurl # <<>> THEN [err |-> "nil", input |-> f.rawCurl]
  ELSE IF fromCurlWithArgs(f) # <<>> THEN [err |-> "nil", input |-> fromCurlWithArgs(f)]
  ELSE IF f.curlFile # <<>>
    THEN IF e.file = <<>> THEN [err |-> "read failed", input |-> <<>>]
         ELSE [err |-> "nil", input |-> TrimSpace(e.file[1])]
  ELSE IF f.url # <<>> THEN [err |-> "nil", input |-> <<>>]
  ELSE [err |-> "nil", input |-> TrimSpace(e.stdin)]

\* the RequestInfo runRoot hands to Process (root.go:158-165), the other flags at
\* their defaults
flagInfo(f) == RequestInfo(f.url, M_GET, cli_parseHeaders(<<>>), cli_parseCookies(<<>>), <<>>)

RunInit ==
  /\ titleKeys = defaultTitleKeys
  /\ childrenKeys = defaultChildrenKeys
  /\ verbose \in BOOLEAN
  /\ maxDepth = 100
  /\ data = <<>>
  /\ order = "ascending"
  /\ pc = "ready"
  /\ output = <<>>
  /\ err = "nil"
  /\ ran = <<>>
  /\ frames = 0
  /\ text = <<>>
  /\ verdict = <<>>
  /\ uiVerdict = <<>>
  /\ NoScorerCall
  /\ previous = <<>>
  /\ NoLookup
  /\ command = <<>>
  /\ requestInfo = <<>>
  /\ parseErr = "nil"
  /\ step = "start"
  /\ request = <<>>
  /\ cliFlags \in {<<f>> : f \in CliFlags}
  /\ env \in {<<e>> : e \in Environments}
  /\ written = <<>>

\* runRoot up to its call of Process (root.go:88-165); Process parses a command
\* that is not empty and takes the RequestInfo of the flags otherwise
\* (curl.go:724-735)
RunRoot ==
  /\ step = "start"
  /\ IF validateInput(cliFlags[1]) # "nil"
       THEN step' = "invalid input" /\ UNCHANGED <<command, requestInfo>>
     ELSE IF inputOf(cliFlags[1], env[1]).err # "nil"
       THEN step' = "read failed" /\ UNCHANGED <<command, requestInfo>>
     ELSE /\ step' = "input"
          /\ command' = inputOf(cliFlags[1], env[1]).input
          /\ requestInfo' = IF inputOf(cliFlags[1], env[1]).input = <<>>
                              THEN <<flagInfo(cliFlags[1])>> ELSE <<>>
  /\ UNCHANGED <<extractorVars, callVars, classifierVars, scorerVars, previous, parseErr,
                 request, runVars, lookupVars>>

\* p.validator.Validate(responseData) (curl.go:744-746)
CallValidate ==
  /\ step = "executed"
  /\ step' = IF Validate(data) = "nil" THEN "validated" ELSE "invalid response"
  /\ UNCHANGED <<extractorVars, callVars, classifierVars, scorerVars, previous, command,
                 requestInfo, parseErr, request, runVars, lookupVars>>

\* p.isErrorResponse(responseData) (curl.go:749-751)
CallIsErrorResponse ==
  /\ step = "validated"
  /\ step' = IF isErrorResponse(data) THEN "error response" ELSE "checked"
  /\ UNCHANGED <<extractorVars, callVars, classifierVars, scorerVars, previous, command,
                 requestInfo, parseErr, request, runVars, lookupVars>>

\* p.treeExtractor.Extract(responseData) (curl.go:754-765)
ProcessExtract ==
  /\ step = "checked"
  /\ ExtractCall
  /\ step' = IF ExtractVerbosely(data).panic THEN "panicked"
             ELSE IF ExtractVerbosely(data).err # "nil" THEN "extract failed"
             ELSE "extracted"
  /\ UNCHANGED <<classifierVars, scorerVars, previous, command, requestInfo, parseErr,
                 request, runVars, lookupVars>>

\* writeOutput(out, result) (root.go:171-174, 268-270): os.WriteFile may fail
WriteOutput ==
  /\ step = "extracted"
  /\ \/ written' = <<output>> /\ step' = "written"
     \/ written' = written /\ step' = "write failed"
  /\ UNCHANGED <<extractorVars, callVars, classifierVars, scorerVars, previous, command,
                 requestInfo, parseErr, request, cliFlags, env, lookupVars>>

RunNext ==
  \/ RunRoot
  \/ CallParse
  \/ CallExecute
  \/ CallValidate
  \/ CallIsErrorResponse
  \/ ProcessExtract
  \/ WriteOutput

RunSpec == RunInit /\ [][RunNext]_vars

(***************************************************************************)
(* findTitle and findChildren on their own, applied to one decoded object  *)
(***************************************************************************)
\* a field of an object, or no field
OptionalField(key, values) == IF values = <<>> THEN EmptyMap ELSE Map1(key, values[1])

\* what a title key may hold: a title, the empty string, a number, null, or
\* the key is absent
TitleValues(title) == {<<>>, <<Str(title)>>, <<Str(<<>>)>>, <<Num(7)>>, <<Null>>}

\* what a children key may hold: an array of one node, the empty array, a
\* string, null, or the key is absent
ChildrenValues(child) == {<<>>, <<Arr(<<child>>)>>, <<Arr(<<>>)>>, <<Str(T_search)>>, <<Null>>}

\* the objects over the keys title, name, items and nodes
LookupObjects ==
  {OptionalField(K_title, t) @@ OptionalField(K_name, n)
     @@ OptionalField(K_items, i) @@ OptionalField(K_nodes, d) :
     t \in TitleValues(T_projectA), n \in TitleValues(T_feature1),
     i \in ChildrenValues(TreeLeaf), d \in ChildrenValues(TreeMid)}

LookupInit ==
  /\ \E args \in NewArguments :
       /\ titleKeys = New(args[1], args[2], args[3]).titleKeys
       /\ childrenKeys = New(args[1], args[2], args[3]).childrenKeys
       /\ verbose = New(args[1], args[2], args[3]).verbose
       /\ maxDepth = New(args[1], args[2], args[3]).maxDepth
  /\ data = <<>>
  /\ order = "ascending"
  /\ pc = "ready"
  /\ output = <<>>
  /\ err = "nil"
  /\ ran = <<>>
  /\ frames = 0
  /\ text = <<>>
  /\ verdict = <<>>
  /\ uiVerdict = <<>>
  /\ NoScorerCall
  /\ previous = <<>>
  /\ NoCurlCall
  /\ NoRun
  /\ lookupObj \in {<<f>> : f \in LookupObjects}
  /\ foundTitle = <<>>
  /\ foundChildren = <<>>

\* title := e.findTitle(obj)
CallFindTitle ==
  /\ lookupObj # <<>>
  /\ foundTitle = <<>>
  /\ foundTitle' = <<findTitle(lookupObj[1])>>
  /\ UNCHANGED <<extractorVars, callVars, classifierVars, scorerVars, previous, curlVars,
                 runVars, lookupObj, foundChildren>>

\* children := e.findChildren(obj): the array returned, or the panic
CallFindChildren ==
  /\ lookupObj # <<>>
  /\ foundChildren = <<>>
  /\ foundChildren' = <<findChildren(lookupObj[1])>>
  /\ UNCHANGED <<extractorVars, callVars, classifierVars, scorerVars, previous, curlVars,
                 runVars, lookupObj, foundTitle>>

LookupNext ==
  \/ CallFindTitle
  \/ CallFindChildren

LookupSpec == LookupInit /\ [][LookupNext]_vars

(***************************************************************************)
(* Properties of Extract                                                   *)
(***************************************************************************)
\* the JSON value a node is written as: {"name": ..., "children": [...]}
RECURSIVE TreeValue(_)
TreeValue(node) ==
  Obj(Map2(K_name, Str(node.name),
           K_children, Arr([i \in 1..Len(node.children) |-> TreeValue(node.children[i])])))

\* the input bytes that carry a nested document in data.TestCaseMind
InputOfDoc == [d \in MindDocs \cup {ScenarioDoc} |-> EncodeJSON(MindPayload(Str(EncodeJSON(d))))]

\* the nested documents by their root: with the title, without a usable title
TitledDocs ==
  {d \in DOMAIN InputOfDoc : Has(d.f, K_data) /\ d.f[K_data] = Obj(TextData(T_rootTitle))}
UntitledDocs == (DOMAIN InputOfDoc) \ TitledDocs
TitledRootInputs == {InputOfDoc[d] : d \in TitledDocs}
UntitledRootInputs == {InputOfDoc[d] : d \in UntitledDocs}

\* the scenario: the root "客户详情-门店列表" with the one child "门店搜索"
ScenarioInput == InputOfDoc[ScenarioDoc]
ScenarioOutput == Arr(<<TreeValue(Node(T_rootTitle, <<Node(T_search, <<>>)>>))>>)

\* C1: Extract on input bytes that are not valid JSON returns an error and nil
\* output bytes, and no extraction strategy is run.
C1_InvalidJSONIsRejected ==
  (pc # "ready" /\ data \in InvalidInputs) =>
    (pc = "done" /\ err = "decode" /\ output = <<>> /\ ran = <<>>)

C1_Witness == pc = "done" /\ data = InvalidJSON /\ err = "decode" /\ output = <<>>

\* C2 as the specification states it: on a valid payload in which neither the
\* pattern-specific builder nor the generic extractor finds a node and no string
\* is business text, Extract returns the no-structure error and no output.
C2_NoStructureIsAnError ==
  (/\ pc = "done"
   /\ ran = <<"pattern", "generic", "flatten">>
   /\ ExtractTextContent(Unmarshal(data).v) = <<>>)
  => (err = "no structure" /\ output = <<>>)

C4_UntitledRootGivesNonEmptyArray ==
  (pc = "done" /\ err = "nil" /\ ran = <<"pattern">> /\ data \in UntitledRootInputs) =>
    LET out == Unmarshal(output) IN
    out.ok /\ IsArr(out.v) /\ Len(out.v.a) > 0

\* C5 as the specification states it: when the root of the nested document has
\* no usable title and a non-empty children array, every child that builds to a
\* node is a root of the output, in the order of the input; when no child
\* builds, the generic extractor is tried.
C5_EveryBuildableChildIsARoot ==
  \A d \in UntitledDocs :
    (pc = "done" /\ data = InputOfDoc[d] /\ Len(childrenOf(d.f)) > 0) =>
      LET roots == parseEach(childrenOf(d.f), 0) IN
      IF Len(roots) > 0
        THEN /\ ran = <<"pattern">>
             /\ Unmarshal(output).v = Arr([i \in 1..Len(roots) |-> TreeValue(roots[i])])
        ELSE Len(ran) >= 2 /\ ran[2] = "generic"

\* the input bytes of the plain trees: every node an object with a title under
\* title or name and a children array under items or nodes
InputOfTree == [p \in TreePayloads |-> EncodeJSON(p)]

\* a plain tree under the field names name and children
RECURSIVE Normalized(_)
Normalized(v) ==
  LET title == IF Has(v.f, K_title) THEN v.f[K_title].s ELSE v.f[K_name].s
      kids == IF Has(v.f, K_items) THEN v.f[K_items].a ELSE v.f[K_nodes].a
  IN Obj(Map2(K_name, Str(title),
              K_children, Arr([i \in 1..Len(kids) |-> Normalized(kids[i])])))

\* the number of levels of a plain tree
RECURSIVE Levels(_)
Levels(v) ==
  LET kids == v.f[K_children].a
      below == {Levels(kids[i]) : i \in 1..Len(kids)}
  IN 1 + (IF below = {} THEN 0 ELSE CHOOSE n \in below : \A m \in below : m <= n)

ProjectPayload == TreeNode(K_title, T_projectA, K_items, <<TreeLeaf>>)
ProjectInput == EncodeJSON(ProjectPayload)
ProjectTree == TreeValue(Node(T_projectA, <<Node(T_feature1, <<>>)>>))

\* the input bytes whose top level is one object
ObjectInputs == {EncodeJSON(p) : p \in {q \in Payloads : IsObj(q)}}

\* a finished call that the generic extractor answered for a top-level object
GenericOnObject ==
  pc = "done" /\ err = "nil" /\ ran = <<"pattern", "generic">> /\ data \in ObjectInputs

RECURSIVE AllNamed(_)
AllNamed(v) ==
  IF IsArr(v) THEN \A i \in 1..Len(v.a) : AllNamed(v.a[i])
  ELSE IF IsObj(v) THEN v.f[K_name] # Str(<<>>) /\ AllNamed(v.f[K_children])
  ELSE TRUE

\* C8 as the specification states it: in every output Extract returns
\* successfully, every node at every level has a non-empty name.
C8_EveryNodeIsNamed ==
  (pc = "done" /\ err = "nil") =>
    LET out == Unmarshal(output) IN out.ok /\ AllNamed(out.v)

(***************************************************************************)
(* Properties of isBusinessText                                            *)
(***************************************************************************)
\* a rune of U+4E00..U+9FFF
IsCJK(r) == r >= 19968 /\ r <= 40959
ContainsCJK(s) == \E i \in 1..Len(s) : IsCJK(s[i])
ContainsBusinessKeyword(s) == \E k \in 1..Len(businessKeywords) : Contains(s, businessKeywords[k])

\* C9: isBusinessText returns false for every string of 2 to 4 characters that
\* contains CJK characters and none of the short-name business keywords.
C9_ShortCJKWithoutKeywordIsRejected ==
  (/\ verdict # <<>>
   /\ Len(text) >= 2 /\ Len(text) <= 4
   /\ ContainsCJK(text) /\ ~ContainsBusinessKeyword(text))
  => verdict = <<FALSE>>

\* "林林林林": four CJK runes that occur in no keyword list
C9_Witness == verdict = <<FALSE>> /\ text = <<26519, 26519, 26519, 26519>>

\* C10 as the specification states it: isBusinessText returns true for every
\* string that contains a CJK character and a business keyword, whatever its
\* length.
C10_CJKWithKeywordIsAccepted ==
  (verdict # <<>> /\ ContainsCJK(text) /\ ContainsBusinessKeyword(text))
  => verdict = <<TRUE>>

\* C10, amended: isBusinessText returns true for every string that contains a
\* CJK character and a business keyword, whatever its length, unless the
\* string contains a technical keyword or an error-response marker, is a short
\* numbered text without a step keyword, or looks like a serialized value.
C10_CJKWithKeywordIsAcceptedUnlessTechnical ==
  (/\ verdict # <<>>
   /\ ContainsCJK(text) /\ ContainsBusinessKeyword(text)
   /\ ~ContainsAny(text, technicalKeywords)
   /\ ~ContainsAny(text, errorResponseMarkers)
   /\ ~looksLikeTechnicalNumbering(text)
   /\ ~looksLikeTechnicalValue(text))
  => verdict = <<TRUE>>

C10_Witness == verdict = <<TRUE>> /\ text = T_search

(***************************************************************************)
(* Properties of the classifiers, continued                                *)
(***************************************************************************)
\* the text contains one of the technical keywords of tree.go:135-158
ContainsTechnicalKeyword(s) ==
  \E k \in 1..Len(technicalKeywords) :
    \E i \in 0..(Len(s) - Len(technicalKeywords[k])) :
      \A j \in 1..Len(technicalKeywords[k]) : s[i + j] = technicalKeywords[k][j]

\* C11: isBusinessText returns false for the empty string and for every string
\* that contains a technical keyword as a substring, whatever else the string
\* contains; an accepted string has survived every rejection rule.
C11_TechnicalKeywordIsRejected ==
  verdict # <<>> =>
    /\ (text = <<>> \/ ContainsTechnicalKeyword(text)) => verdict = <<FALSE>>
    /\ verdict = <<TRUE>> =>
         /\ text # <<>>
         /\ ~ContainsTechnicalKeyword(text)
         /\ ~ContainsAny(text, errorResponseMarkers)
         /\ ~looksLikePersonalName(text)
         /\ ~looksLikeTechnicalNumbering(text)
         /\ ~looksLikeTechnicalValue(text)
         /\ ~isShortTechnicalWord(text)

\* a text with a business keyword and a technical keyword has been rejected
C11_Witness ==
  /\ text = <<38376, 24215, 29579, 36890>>
  /\ ContainsBusinessKeyword(text)
  /\ verdict = <<FALSE>>

\* C12: whatever isBusinessText accepts, isUIBusinessText accepts too, at every
\* depth; the three sample texts are accepted by both; "CreatedAt" and the
\* personal name are rejected by both.
C12_UIAcceptsWhatBusinessAccepts ==
  (verdict # <<>> /\ uiVerdict # <<>>) =>
    /\ verdict = <<TRUE>> => uiVerdict = <<TRUE>>
    /\ text \in {T_aiGuide, T_tcc, T_tccState} => (verdict = <<TRUE>> /\ uiVerdict = <<TRUE>>)
    /\ text \in {T_createdAt, T_person} => (verdict = <<FALSE>> /\ uiVerdict = <<FALSE>>)

(***************************************************************************)
(* Properties of the root candidate scorer                                 *)
(***************************************************************************)
\* the score of tree.go:1531-1567, rule by rule
ScoreOf(node) ==
  (IF \E k \in 1..Len(priorityKeywords) : Contains(ToLower(node.name), priorityKeywords[k])
     THEN 100 ELSE 0)
  - 50 * Cardinality({k \in 1..Len(avoidKeywords) : Contains(ToLower(node.name), avoidKeywords[k])})
  + (IF node.children # <<>> THEN 20 ELSE 0)
  + (IF Len(node.name) \in 4..15 THEN 10 ELSE 0)

\* the index of the first candidate that no candidate outscores
FirstOfBest ==
  CHOOSE i \in 1..Len(candidates) :
    /\ \A j \in 1..Len(candidates) : ScoreOf(candidates[j]) <= ScoreOf(candidates[i])
    /\ \A j \in 1..(i - 1) : ScoreOf(candidates[j]) < ScoreOf(candidates[i])

\* every call so far returned the first of the best candidates
FirstOfBestIsChosen ==
  \A c \in 1..Len(chosen) :
    /\ chosen[c] = chosen[1]
    /\ candidates # <<>> => chosen[c] = <<candidates[FirstOfBest]>>
    /\ Len(candidates) = 1 => chosen[c] = <<candidates[1]>>

\* C13: on a list of candidates, every call of selectBestBusinessRootNode
\* returns the same candidate: an element of the list with the maximum score,
\* the first such in input order, and the only element of a one-element list;
\* no call modifies the candidates.
C13_SelectBestIsDeterministic ==
  /\ []FirstOfBestIsChosen
  /\ [][candidates' = candidates]_vars

\* two calls were made on candidates of which the second and third tie for the
\* highest score
C13_Witness ==
  /\ Len(chosen) = 2
  /\ Len(candidates) = 3
  /\ ScoreOf(candidates[2]) = ScoreOf(candidates[3])
  /\ ScoreOf(candidates[1]) < ScoreOf(candidates[2])
  /\ candidates[2] # candidates[3]
  /\ chosen[2] = <<candidates[2]>>

(***************************************************************************)
(* Properties of the output encoding                                       *)
(***************************************************************************)
\* the names of the nodes of a decoded output
RECURSIVE NamesOf(_)
NamesOf(v) ==
  IF IsArr(v) THEN UNION {NamesOf(v.a[i]) : i \in 1..Len(v.a)}
  ELSE IF IsObj(v) THEN {v.f[K_name].s} \cup NamesOf(v.f[K_children])
  ELSE {}

\* the runes the claim is about: &, <, > and the apostrophe
Symbols == {38, 60, 62, 39}

\* C14 as the specification states it: when a node name holds &, <, > or an
\* apostrophe, the output bytes hold that character literally and none of the
\* escape sequences \u0026, \u003c, \u003e, \u0027; the output is valid JSON.
C14_SymbolsAreWrittenLiterally ==
  (pc = "done" /\ err = "nil") =>
    /\ Unmarshal(output).ok
    /\ \A n \in NamesOf(Unmarshal(output).v) :
         \A i \in 1..Len(n) :
           n[i] \in Symbols =>
             /\ Contains(output, <<n[i]>>)
             /\ ~Contains(output, L_u0026) /\ ~Contains(output, L_u003c)
             /\ ~Contains(output, L_u003e) /\ ~Contains(output, L_u0027)

(***************************************************************************)
(* Properties of the recursion                                             *)
(***************************************************************************)
\* C15 as the specification states it: an Extract call terminates, and no
\* recursive routine it runs nests more than maxDepth + 1 frames deep.
C15_RecursionIsWithinMaxDepth ==
  pc # "ready" => (pc \in {"done", "panicked"} /\ frames <= maxDepth + 1)

(***************************************************************************)
(* Properties of repeated calls                                            *)
(***************************************************************************)
\* C16 as the specification states it: two calls of Extract on the same bytes
\* with the same configuration return the same bytes and the same error.
C16_SameInputSameOutput ==
  (pc = "done" /\ previous # <<>> /\ previous[1].maxDepth = maxDepth) =>
    (output = previous[1].output /\ err = previous[1].err)

(***************************************************************************)
(* Properties of the verbose flag                                          *)
(***************************************************************************)
\* the payload whose nested document ends after the first object of an array
TruncatedInput == EncodeJSON(MindPayload(Str(L_cutArray)))

\* C17: a call of a verbose extractor ends as the call of the quiet extractor
\* on the same bytes and configuration does: the same output bytes, the same
\* error, and a panic only where the quiet call panics.
C17_VerboseHasNoEffect ==
  (verbose /\ pc # "ready") =>
    /\ (pc = "panicked") = ExtractResult(data).panic
    /\ output = ExtractResult(data).output
    /\ err = ExtractResult(data).err

\* a verbose extractor has answered the truncated nested document, whose
\* decoding error the diagnostic code prints a fragment for
C17_Witness ==
  /\ verbose
  /\ pc = "done"
  /\ data = TruncatedInput
  /\ findLastValidJSONPosition(L_cutArray) = 3
  /\ err = "nil"

(***************************************************************************)
(* Properties of CurlParser.Parse and Executor.Execute                     *)
(***************************************************************************)
\* the words of a command, and the methods its -X and --request flags name
WordsOf(cmd) == SelectSeq(Split(cmd, 32), LAMBDA w : w # <<>>)

FlagMethods(cmd) ==
  {Trim(WordsOf(cmd)[i + 1], quotes) :
     i \in {k \in 1..(Len(WordsOf(cmd)) - 1) : WordsOf(cmd)[k] \in {F_X, F_request}}}

\* C18: the RequestInfo Parse returns has the method the -X or --request flag of
\* the command names; without such a flag the method is GET, or POST when the
\* RequestInfo has a body
C18_MethodFollowsFlag ==
  step = "parsed" =>
    IF FlagMethods(command) # {}
      THEN requestInfo[1].Method \in FlagMethods(command)
    ELSE requestInfo[1].Method = (IF requestInfo[1].Body # <<>> THEN M_POST ELSE M_GET)

\* a command names a URL: it holds http:// or https://
NamesURL(cmd) ==
  Contains(cmd, U_http \o U_slashes) \/ Contains(cmd, U_http \o <<115>> \o U_slashes)

\* C19: for the command `curl <URL>`, the URL bare or in double or single quotes,
\* Parse returns no error and a RequestInfo with that URL, the method GET and an
\* empty body; Parse returns an error only for an empty command or a command
\* that names no URL
C19_ParseReturnsTheURL ==
  /\ \A t \in TargetParts \ {<<>>} :
       (command = W_curl \o <<32>> \o t /\ step # "input") =>
         /\ parseErr = "nil"
         /\ requestInfo # <<>>
         /\ requestInfo[1].URL = Trim(t, quotes)
         /\ requestInfo[1].Method = M_GET
         /\ requestInfo[1].Body = <<>>
  /\ step = "parse failed" => (command = <<>> \/ ~NamesURL(command))

\* the cookies k1=v1 and k2=v2, and the cookies a request carries in its Cookie header
TwoCookies == (P_k1 :> P_v1) @@ (P_k2 :> P_v2)

RequestCookies(req) ==
  IF Has(req.Header, P_cookieName)
    THEN cookiesOfPairs(EmptyMap, Split(req.Header[P_cookieName], 59))
  ELSE EmptyMap

\* the request was given the two cookies: with -b or --cookie in the command, or
\* with --cookies in parameter mode
SuppliesTwoCookies ==
  \/ Contains(command, P_b) \/ Contains(command, P_cookie)
  \/ command = <<>> /\ requestInfo # <<>> /\ requestInfo[1].Cookies = TwoCookies

\* C20: when the request was given the cookies k1=v1; k2=v2, the RequestInfo
\* handed to Execute has Cookies {k1: v1, k2: v2} and the HTTP request Execute
\* sent carries them
C20_CookiesReachTheRequest ==
  (request # <<>> /\ SuppliesTwoCookies) =>
    /\ requestInfo[1].Cookies = TwoCookies
    /\ \A k \in DOMAIN TwoCookies :
         Has(RequestCookies(request[1]), k) /\ RequestCookies(request[1])[k] = TwoCookies[k]

(***************************************************************************)
(* Properties of a run of the command line                                 *)
(***************************************************************************)
\* how many of --raw-curl, --from-curl, --curl-file and --url the run was given
GivenInputs ==
  Cardinality({k \in {"rawCurl", "fromCurl", "curlFile", "url"} : cliFlags[1][k] # <<>>})

\* C21: a run that was given none of the four input flags takes the cURL command
\* from stdin and goes on to process it; a run that was given more than one of
\* them fails before any request is made
C21_StdinIsAnInput ==
  step # "start" =>
    /\ GivenInputs = 0 => (step # "invalid input" /\ command = TrimSpace(env[1].stdin))
    /\ GivenInputs > 1 => (step = "invalid input" /\ request = <<>>)

\* C22: for a response body that is an ordinary tree of titles and children (no
\* errCode, no message, no data.TestCaseMind), Process returns the extracted tree
\* and no error
C22_OrdinaryResponseIsExtracted ==
  data = EncodeJSON(RestTree) =>
    /\ step \notin {"invalid response", "error response", "extract failed", "panicked"}
    /\ step \in {"extracted", "written", "write failed"} =>
         (err = "nil" /\ Unmarshal(output).ok /\ Unmarshal(output).v.f[K_name] = Str(T_projectA))

\* the stages of a run in their order, and the steps a failed stage ends in
StageOrder ==
  {<<"start", "input">>, <<"start", "invalid input">>, <<"start", "read failed">>,
   <<"input", "parsed">>, <<"input", "parse failed">>,
   <<"input", "executed">>, <<"input", "execute failed">>,
   <<"parsed", "executed">>, <<"parsed", "execute failed">>,
   <<"executed", "validated">>, <<"executed", "invalid response">>,
   <<"validated", "checked">>, <<"validated", "error response">>,
   <<"checked", "extracted">>, <<"checked", "extract failed">>, <<"checked", "panicked">>,
   <<"extracted", "written">>, <<"extracted", "write failed">>}

AfterExecute == {"executed", "validated", "checked", "extracted", "written", "write failed",
                 "invalid response", "error response", "extract failed", "panicked"}
AfterValidate == AfterExecute \ {"executed", "invalid response"}
AfterCheck == AfterValidate \ {"validated", "error response"}
AfterExtract == {"extracted", "written", "write failed"}

\* every step moves one stage on, and a command is parsed before its request is sent
StagesInOrder ==
  /\ step' # step => <<step, step'>> \in StageOrder
  /\ (step = "input" /\ step' \in {"executed", "execute failed"}) => command = <<>>
  /\ step' = step => written' = written

\* a later stage has run only after the stages before it succeeded, and the
\* output file holds the result of a run whose every stage succeeded
StagesSucceeded ==
  /\ step \in AfterExecute => (request # <<>> /\ requestInfo # <<>> /\ parseErr = "nil")
  /\ step \in AfterValidate => (Len(data) > 0 /\ Unmarshal(data).ok)
  /\ step \in AfterCheck => (IsObj(Unmarshal(data).v) /\ Has(Unmarshal(data).v.f, K_data))
  /\ step \in AfterExtract => (pc = "done" /\ err = "nil" /\ output # <<>>)
  /\ step \notin AfterCheck => pc = "ready"
  /\ written # <<>> <=> step = "written"
  /\ written # <<>> => written = <<output>>

\* C30: Process runs its stages in the order parse (or take the supplied request),
\* execute, validate, error-response check, extract; once a stage fails no later
\* stage runs and there is no result; the output file is written only after
\* Process returned a result
C30_PipelineIsOrderedAndFailFast == []StagesSucceeded /\ [][StagesInOrder]_vars

C30_Witness ==
  /\ step = "written"
  /\ written = <<output>>
  /\ command = I_raw
  /\ data = EncodeJSON(MindResponse)

(***************************************************************************)
(* Properties of createDefaultStructure: the order of the strategies       *)
(***************************************************************************)
\* the payload has a data object whose TestCaseMind is absent, is no string,
\* is the empty string or is no text of a JSON object
testCaseMindFails(inner) ==
  \/ ~Has(inner, K_TestCaseMind)
  \/ ~IsStr(inner[K_TestCaseMind])
  \/ inner[K_TestCaseMind].s = <<>>
  \/ ~UnmarshalMap(inner[K_TestCaseMind].s).ok

unwrapFails(rawData) ==
  /\ rawData.ok
  /\ IsObj(rawData.v)
  /\ Has(rawData.v.f, K_data)
  /\ IsObj(rawData.v.f[K_data])
  /\ testCaseMindFails(rawData.v.f[K_data].f)

\* what Extract returns when createDefaultStructure starts at its second
\* strategy, on the payload itself
fallbackOutput(v) == MarshalIndent(defaultOfStandardTree(v, tryStandardTreeStructure(v)).res)

\* C23: when data.TestCaseMind is absent, is no string, is empty or does not
\* decode (a text cut before its end included), the call of Extract ends
\* without a panic and without an error, the generic extractor was entered
\* right after the pattern-specific builder, and the output is the one of the
\* generic extractor and the text flattening on the original payload.
C23_UnwrapFailureFallsBack ==
  (pc # "ready" /\ unwrapFails(Unmarshal(data))) =>
    /\ pc = "done"
    /\ err = "nil"
    /\ Len(ran) >= 2
    /\ ran[1] = "pattern"
    /\ ran[2] = "generic"
    /\ output = fallbackOutput(Unmarshal(data).v)

\* a call on a nested document cut before its end has ended, under a verbose
\* extractor
C23_Witness ==
  /\ pc = "done"
  /\ verbose
  /\ data = EncodeJSON(MindPayload(Str(Prefix(EncodeJSON(ScenarioDoc), Len(EncodeJSON(ScenarioDoc)) - 2))))
  /\ ran[2] = "generic"
  /\ output = fallbackOutput(Unmarshal(data).v)

\* the result of a strategy holds a node: a non-nil *SimplifiedNode or a
\* non-empty slice of them
yieldsNode(res) ==
  \/ res.k = "ptr" /\ res.p # <<>>
  \/ res.k = "slice" /\ Len(res.nodes) > 0

\* the result of the first of the three strategies that yields a node, given
\* the results of the first two
firstOfResults(v, testCaseMindNodes, standardTree) ==
  IF yieldsNode(testCaseMindNodes) THEN testCaseMindNodes
  ELSE IF yieldsNode(standardTree.res) THEN standardTree.res
  ELSE PtrResult(createGenericBusinessTextStructure(v))

firstWithNode(v) ==
  firstOfResults(v, parseTestCaseMindStructureDirect(v), tryStandardTreeStructure(v))

\* the strategies a call enters when it stops at the first that yields a node
strategiesOfResults(testCaseMindNodes, standardTree) ==
  IF yieldsNode(testCaseMindNodes) THEN <<"pattern">>
  ELSE IF yieldsNode(standardTree.res) THEN <<"pattern", "generic">>
  ELSE <<"pattern", "generic", "flatten">>

strategiesUntilNode(v) ==
  strategiesOfResults(parseTestCaseMindStructureDirect(v), tryStandardTreeStructure(v))

\* C24 as the specification states it: a call of Extract that returns enters
\* the pattern-specific builder, then the generic extractor, then the text
\* flattening, stops at the first strategy that yields a node and returns the
\* node of that strategy; the text flattening is not entered when the
\* pattern-specific builder matched the nested document.
C24_FirstStrategyWithANodeWins ==
  (pc = "done" /\ Unmarshal(data).ok) =>
    /\ err = "nil"
    /\ ran = strategiesUntilNode(Unmarshal(data).v)
    /\ output = MarshalIndent(firstWithNode(Unmarshal(data).v))

(***************************************************************************)
(* Properties of createGenericBusinessTextStructure                        *)
(***************************************************************************)
\* the strings that are values anywhere in a payload
RECURSIVE stringsOf(_)
stringsOf(v) ==
  IF IsStr(v) THEN {v.s}
  ELSE IF IsArr(v) THEN UNION {stringsOf(v.a[i]) : i \in 1..Len(v.a)}
  ELSE IF IsObj(v) THEN UNION {stringsOf(v.f[k]) : k \in DOMAIN v.f}
  ELSE {}

\* those of them that isBusinessText accepts
businessStringsOf(v) == {s \in stringsOf(v) : s # <<>> /\ isBusinessText(s)}

\* the children of an output node are leaves that name each text of a set
\* exactly once, the longer before the shorter
leavesOfTexts(children, texts) ==
  /\ Len(children) = Cardinality(texts)
  /\ {children[i].f[K_name] : i \in 1..Len(children)} = {Str(s) : s \in texts}
  /\ \A i \in 1..Len(children) : children[i].f[K_children] = Arr(<<>>)
  /\ \A i, j \in 1..Len(children) :
       i < j => RuneLen(children[j].f[K_name].s) <= RuneLen(children[i].f[K_name].s)

\* an output value is one root named by a longest text of a set, over the other
\* texts of the set
flattenedTexts(out, texts) ==
  /\ out.ok
  /\ IsObj(out.v)
  /\ IsStr(out.v.f[K_name])
  /\ out.v.f[K_name].s \in texts
  /\ \A s \in texts : RuneLen(s) <= RuneLen(out.v.f[K_name].s)
  /\ IsArr(out.v.f[K_children])
  /\ leavesOfTexts(out.v.f[K_children].a, texts \ {out.v.f[K_name].s})

\* C25 as the specification states it: when the text flattening answers a
\* payload that holds business texts, the output is one root named by a longest
\* business text of the payload; its children are all the other business texts
\* of the payload, each once, ordered by non-increasing length, each a leaf.
C25_FlattenKeepsEveryBusinessText ==
  (/\ pc = "done"
   /\ ran = <<"pattern", "generic", "flatten">>
   /\ businessStringsOf(Unmarshal(data).v) # {})
  => flattenedTexts(Unmarshal(output), businessStringsOf(Unmarshal(data).v))

(***************************************************************************)
(* Properties of the depth ceiling                                         *)
(***************************************************************************)
\* an output value has no node below a number of levels
RECURSIVE WithinLevels(_, _)
WithinLevels(v, levels) ==
  IF IsArr(v) THEN \A i \in 1..Len(v.a) : WithinLevels(v.a[i], levels)
  ELSE IF IsObj(v) THEN levels >= 1 /\ WithinLevels(v.f[K_children], levels - 1)
  ELSE FALSE

\* the inputs that hold a tree: a plain tree for the generic extractor, a
\* nested document with a titled root for the pattern-specific builder
TreeInputs == {InputOfTree[p] : p \in TreePayloads}

\* C26 as the specification states it: on a tree, whatever maxDepth is, the
\* call of Extract succeeds and its output has no node below depth maxDepth:
\* a node built at depth maxDepth has an empty children list.
C26_NothingBelowTheCeiling ==
  (pc # "ready" /\ data \in TreeInputs \cup TitledRootInputs) =>
    /\ pc = "done"
    /\ err = "nil"
    /\ Unmarshal(output).ok
    /\ WithinLevels(Unmarshal(output).v, maxDepth + 1)

(***************************************************************************)
(* Properties of findTitle and findChildren                                *)
(***************************************************************************)
\* the value of the first title key from the k-th on that holds a non-empty
\* string, else the empty string
RECURSIVE firstTitleFrom(_, _)
firstTitleFrom(f, k) ==
  IF k > Len(titleKeys) THEN <<>>
  ELSE IF Has(f, titleKeys[k]) /\ IsStr(f[titleKeys[k]]) /\ f[titleKeys[k]].s # <<>>
    THEN f[titleKeys[k]].s
  ELSE firstTitleFrom(f, k + 1)

\* the value of the first children key from the k-th on that holds a non-empty
\* array, else nothing
RECURSIVE firstChildrenFrom(_, _)
firstChildrenFrom(f, k) ==
  IF k > Len(childrenKeys) THEN <<>>
  ELSE IF Has(f, childrenKeys[k]) /\ IsArr(f[childrenKeys[k]]) /\ f[childrenKeys[k]].a # <<>>
    THEN f[childrenKeys[k]].a
  ELSE firstChildrenFrom(f, k + 1)

\* C27 as the specification states it: findTitle returns the value of the first
\* key of titleKeys that holds a non-empty string, else the empty string, and
\* findChildren returns the value of the first key of childrenKeys that holds a
\* non-empty array, else nothing; a key whose value has the wrong type, is
\* empty or is null is passed over for the next key.
C27_LookupFollowsPriority ==
  /\ foundTitle # <<>> => foundTitle[1] = firstTitleFrom(lookupObj[1], 1)
  /\ foundChildren # <<>> =>
       foundChildren[1] = [panic |-> FALSE, children |-> firstChildrenFrom(lookupObj[1], 1)]

(***************************************************************************)
(* Properties of parseTestCaseMindNode                                     *)
(***************************************************************************)
\* the data object of a node of the nested document, empty when it has none
dataOf(nodeData) ==
  IF Has(nodeData, K_data) /\ IsObj(nodeData[K_data]) THEN nodeData[K_data].f ELSE EmptyMap

\* the node the stated order of resolution gives: the title from richText,
\* else from the text field, else the placeholder for a node below the root
\* that has children, else no node; the children built the same way, in order
RECURSIVE resolvedNode(_, _)
RECURSIVE resolvedEach(_, _)
resolvedOfTitle(titleText, childrenArray, depth) ==
  IF titleText # <<>> THEN <<Node(titleText, resolvedEach(childrenArray, depth + 1))>>
  ELSE IF depth > 0 /\ Len(childrenArray) > 0
    THEN <<Node(placeholderTitle, resolvedEach(childrenArray, depth + 1))>>
  ELSE <<>>

resolvedNode(nodeData, depth) ==
  resolvedOfTitle(nodeTitle(dataOf(nodeData), depth), childrenOf(nodeData), depth)

resolvedEach(array, depth) ==
  Concat([i \in 1..Len(array) |->
    IF IsObj(array[i]) THEN resolvedNode(array[i].f, depth) ELSE <<>>])

\* the output for a list of roots
RootsValue(nodes) == Arr([i \in 1..Len(nodes) |-> TreeValue(nodes[i])])

\* C28 as the specification states it: on a nested document with a titled
\* root, the output holds every node as the order of resolution gives it
\* (richText before text, the placeholder for an untitled node below the root
\* that has children, else dropped), each kept node under its parent, in input
\* order.
C28_TitlesResolveInOrder ==
  \A d \in TitledDocs :
    (pc # "ready" /\ data = InputOfDoc[d]) =>
      /\ pc = "done"
      /\ err = "nil"
      /\ Unmarshal(output) = [ok |-> TRUE, v |-> RootsValue(resolvedNode(d.f, 0))]

(***************************************************************************)
(* Properties of Extract on every JSON text                                *)
(***************************************************************************)
\* the input bytes that are a JSON text
ValidInputs == {EncodeJSON(p) : p \in Payloads}

\* C29 as the specification states it: on every JSON text, an object whose
\* children key holds null included, the call of Extract returns output bytes
\* or an error and never panics.
C29_ExtractIsTotal ==
  (pc # "ready" /\ data \in ValidInputs) =>
    /\ pc = "done"
    /\ (err = "nil") # (output = <<>>)

=============================================================================
